---- MODULE Spec2Model ----
(***************************************************************************)
(* Model of the NanoAITTS chunk fetcher / stream assembler                 *)
(* (NanoAITTS.getAudioChunks, getAudioChunksSerial, getAudio) as a state   *)
(* machine: one async generator, the fetch tasks it launches, the upstream *)
(* service answering them, and the consumer that drives the generator with *)
(* next() / return().  Segment indexes are 0-based as in the source.       *)
(***************************************************************************)
EXTENDS Integers, Sequences, FiniteSets, TLC

VARIABLES
    texts,        \* argument texts: sequence of segment texts (UTF-16 code units)
    concurrency,  \* argument concurrency
    pc,           \* position of the generator body
    mode,         \* branch taken at entry: "none", "serial", "batched"
    batchStart,   \* loop variable batchStart of the batched loop
    idx,          \* loop variable i of the emit loop / of the serial loop
    task,         \* per segment: state of its getAudio / body read
    chunks,       \* fetchOne's local chunks array, per segment
    results,      \* the results array: <<>> is null, <<b>> holds buffer b
    out,          \* buffers handed to the consumer so far, in order
    arrived,      \* per segment: body pieces the upstream has delivered to a read
    fetchCount,   \* per segment: number of fetch() calls issued upstream
    requests,     \* number of next() calls the consumer has made
    finished,     \* segments of the current batch in the order their tasks settled
    sText,        \* splitText: argument text (UTF-16 code units)
    sMaxLen,      \* splitText: argument maxLen
    sOut,         \* splitText: the returned segments
    sPc,          \* splitText: "off", "call", "done"
    hIn,          \* _e: argument nt (UTF-16 code units)
    hAt,          \* _e: accumulator at, as <<high part, low 16 bits>>
    hI,           \* _e: loop index i (0-based)
    hPc,          \* _e: "off", "loop", "done"
    hPrev,        \* _e: what the previous call with the same argument returned
    hWide,        \* _e: the accumulator of the same loop run on unbounded integers
    voices,       \* NanoAITTS.voices: the catalog, tag -> [name, iconUrl]
    apiPc,        \* loadVoices: "off", "idle", "building", "loading"
    apiResp,      \* the kind of answer the last loadVoices call got
    sent,         \* upstream calls issued so far: [kind, built, headers, build]
    builds,       \* number of getHeaders runs so far
    pending,      \* calls whose headers are built and whose fetch is not yet sent
    handlers,     \* server: per connection, the request being handled
    fNt,          \* generateUniqueHash: nt (UTF-16 code units)
    fAt,          \* generateUniqueHash: at
    fIt,          \* generateUniqueHash: it
    fPc,          \* generateUniqueHash: "off", "loop", "e", "hashed"
    fI,           \* generateUniqueHash: i of the loop of _e(nt)
    fE,           \* generateUniqueHash: at of the loop of _e(nt)
    fHash,        \* generateUniqueHash: hash, as <<high part, low 16 bits>>
    calls,        \* two getAudioChunks calls: per call, its locals but results
    arrays        \* two getAudioChunks calls: the results arrays

pipeVars == <<texts, concurrency, pc, mode, batchStart, idx, task, chunks, results,
              out, arrived, fetchCount, requests, finished>>
splitVars == <<sText, sMaxLen, sOut, sPc>>
hashVars == <<hIn, hAt, hI, hPc, hPrev, hWide>>
apiVars == <<voices, apiPc, apiResp, sent, builds, pending>>
srvVars == <<handlers>>
fpVars == <<fNt, fAt, fIt, fPc, fI, fE, fHash>>
pairVars == <<calls, arrays>>

vars == <<pipeVars, splitVars, hashVars, apiVars, srvVars, fpVars, pairVars>>

----------------------------------------------------------------------------
(* Bounds of the model *)

MaxSegs == 4
MaxPieces == 2
LiveMaxSegs == 3

(* Program constant: concurrency = 3, the default of getAudioChunks *)
DefaultConcurrency == 3

(* Segment texts the inputs are drawn from: "a", and a lone high surrogate *)
SegmentTexts == { <<97>>, <<55296>> }

----------------------------------------------------------------------------
(* Helpers *)

N == Len(texts)
Segments == 0 .. (N - 1)
Null == <<>>
Min(a, b) == IF a <= b THEN a ELSE b
Max(a, b) == IF a >= b THEN a ELSE b

IsHighSurrogate(c) == c >= 55296 /\ c <= 56319
IsLowSurrogate(c) == c >= 56320 /\ c <= 57343

(* encodeURIComponent(text) throws URIError on a lone surrogate *)
EncodeURIComponentThrows(s) ==
    \E k \in 1 .. Len(s) :
        \/ IsHighSurrogate(s[k]) /\ (k = Len(s) \/ ~IsLowSurrogate(s[k + 1]))
        \/ IsLowSurrogate(s[k]) /\ (k = 1 \/ ~IsHighSurrogate(s[k - 1]))

(* The k-th body piece of segment i: one byte, tagged with its origin *)
Piece(i, k) == << <<i, k>> >>

MergeFirst(cs) == IF cs = <<>> THEN <<>> ELSE Head(cs)
RECURSIVE Merge(_)
(* fetchOne: all chunks copied into one buffer at increasing offsets *)
Merge(cs) == IF cs = <<>> THEN <<>> ELSE Head(cs) \o Merge(Tail(cs))

UseSerialNoConcurrencyCheck(c, len) == len <= 2
UseSerialStrict(c, len) == c < 1 \/ len <= 2
(* if (concurrency <= 1 || texts.length <= 2) *)
UseSerial(c, len) == c <= 1 \/ len <= 2

BatchEndUnclamped(bs) == Min(bs + concurrency + 1, N)
(* const batchEnd = Math.min(batchStart + concurrency, texts.length) *)
BatchEnd(bs) == Min(bs + concurrency, N)

NextBatchStartOverlap(bs) == bs + concurrency - 1
(* batchStart += concurrency *)
NextBatchStart(bs) == bs + concurrency

Batch(bs) == bs .. (BatchEnd(bs) - 1)

Settled(i) == task[i] \in {"ok", "failed", "nobody", "rejected"}

AnySettled(bs) == \E i \in Batch(bs) : Settled(i)
(* await Promise.all(batchPromises): every promise of the batch fulfilled *)
AllSettled(bs) == \A i \in Batch(bs) : Settled(i)

(* Promise.all rejects as soon as one of its promises rejects *)
AnyRejected(bs) == \E i \in Batch(bs) : task[i] = "rejected"

SegmentErrorRethrown == "rejected"
(* catch (e) { console.error(...) }: the error ends the segment, no rethrow *)
SegmentErrorState == "failed"

ResultSlotPush(index) ==
    batchStart + Cardinality({j \in Batch(batchStart) : results[j] # Null})
(* results[index] = merged *)
ResultSlot(index) == index

EmittableNonEmpty(r) == r # Null /\ Len(r[1].data) > 0
(* if (results[i]) : a Uint8Array is truthy whatever its length *)
Emittable(r) == r # Null

AfterYieldEager(suspended, running) == running
(* yield: the generator is suspended until the consumer calls next() *)
AfterYield(suspended, running) == suspended

SerialEmitBuffered(o, b) == o
(* if (value) yield value *)
SerialEmit(o, b) == Append(o, b)

(* upstream fetches issued and not yet finished *)
InFlight == {i \in Segments : task[i] \in {"fetching", "reading"}}

----------------------------------------------------------------------------
(* Initial state: the generator object has been created, nothing has run *)

InitWith(maxSegs) ==
    /\ texts \in UNION {[1 .. n -> SegmentTexts] : n \in 0 .. maxSegs}
    /\ concurrency \in 0 .. DefaultConcurrency
    /\ pc = "start"
    /\ mode = "none"
    /\ batchStart = 0
    /\ idx = 0
    /\ task = [i \in 0 .. (Len(texts) - 1) |-> "idle"]
    /\ chunks = [i \in 0 .. (Len(texts) - 1) |-> <<>>]
    /\ results = [i \in 0 .. (Len(texts) - 1) |-> Null]
    /\ out = <<>>
    /\ arrived = [i \in 0 .. (Len(texts) - 1) |-> 0]
    /\ fetchCount = [i \in 0 .. (Len(texts) - 1) |-> 0]
    /\ requests = 0
    /\ finished = <<>>

(* the parts of the program a specification does not exercise stay as they are *)
PipeIdle ==
    /\ texts = <<>> /\ concurrency = DefaultConcurrency /\ pc = "off" /\ mode = "none"
    /\ batchStart = 0 /\ idx = 0 /\ task = <<>> /\ chunks = <<>> /\ results = <<>>
    /\ out = <<>> /\ arrived = <<>> /\ fetchCount = <<>> /\ requests = 0
    /\ finished = <<>>
SplitIdle == sText = <<>> /\ sMaxLen = 0 /\ sOut = <<>> /\ sPc = "off"
HashIdle ==
    /\ hIn = <<>> /\ hAt = <<0, 0>> /\ hI = 0 /\ hPc = "off" /\ hPrev = Null
    /\ hWide = <<0, 0>>
NoResponse == [kind |-> "none", list |-> <<>>]
ApiIdle ==
    /\ voices = <<>> /\ apiPc = "off" /\ apiResp = NoResponse /\ sent = <<>>
    /\ builds = 0 /\ pending = {}
SrvIdle == handlers = <<>>
FpIdle ==
    /\ fNt = <<>> /\ fAt = 0 /\ fIt = 0 /\ fPc = "off"
    /\ fI = 0 /\ fE = <<0, 0>> /\ fHash = <<0, 0>>
PairIdle == calls = <<>> /\ arrays = <<>>

Init == InitWith(MaxSegs) /\ SplitIdle /\ HashIdle /\ ApiIdle /\ SrvIdle /\ FpIdle /\ PairIdle

----------------------------------------------------------------------------
(* The consumer (for await ... of) *)

ConsumerNext ==
    /\ pc \in {"start", "yieldB", "yieldS"}
    /\ requests' = requests + 1
    /\ pc' = CASE pc = "start" -> "entry"
               [] pc = "yieldB" -> "resumeB"
               [] pc = "yieldS" -> "serialRead"
    /\ UNCHANGED <<texts, concurrency, mode, batchStart, idx, task, chunks,
                   results, out, arrived, fetchCount, finished>>
    /\ UNCHANGED <<splitVars, hashVars, apiVars, srvVars, fpVars, pairVars>>

(* The consumer abandons the sequence after a buffer: return() ends the   *)
(* generator at its yield; in serial mode the finally releases the reader *)
ConsumerStop ==
    /\ pc \in {"yieldB", "yieldS"}
    /\ pc' = "returned"
    /\ task' = IF pc = "yieldS" THEN [task EXCEPT ![idx] = "released"] ELSE task
    /\ UNCHANGED <<texts, concurrency, mode, batchStart, idx, chunks, results,
                   out, arrived, fetchCount, requests, finished>>
    /\ UNCHANGED <<splitVars, hashVars, apiVars, srvVars, fpVars, pairVars>>

----------------------------------------------------------------------------
(* getAudioChunks: entry *)

Enter ==
    /\ pc = "entry"
    /\ mode' = IF UseSerial(concurrency, N) THEN "serial" ELSE "batched"
    /\ pc' = IF UseSerial(concurrency, N) THEN "serialLoop" ELSE "batchLoop"
    /\ batchStart' = 0
    /\ idx' = 0
    /\ UNCHANGED <<texts, concurrency, task, chunks, results, out, arrived,
                   fetchCount, requests, finished>>
    /\ UNCHANGED <<splitVars, hashVars, apiVars, srvVars, fpVars, pairVars>>

----------------------------------------------------------------------------
(* getAudio, called by fetchOne and by getAudioChunksSerial *)

SettleAs(i, st) ==
    /\ task' = [task EXCEPT ![i] = st]
    /\ chunks' = [chunks EXCEPT ![i] = <<>>]
    /\ finished' = Append(finished, i)

(* getHeaders resolved; the body is encoded and fetch() is called *)
SendFetch(i) ==
    /\ task[i] = "headers"
    /\ IF EncodeURIComponentThrows(texts[i + 1])
          THEN SettleAs(i, SegmentErrorState) /\ UNCHANGED fetchCount
          ELSE /\ task' = [task EXCEPT ![i] = "fetching"]
               /\ fetchCount' = [fetchCount EXCEPT ![i] = @ + 1]
               /\ UNCHANGED <<chunks, finished>>
    /\ UNCHANGED <<texts, concurrency, pc, mode, batchStart, idx, results, out,
                   arrived, requests>>
    /\ UNCHANGED <<splitVars, hashVars, apiVars, srvVars, fpVars, pairVars>>

(* the response arrives with a non-OK status: getAudio throws *)
FetchHttpError(i) ==
    /\ task[i] = "fetching"
    /\ SettleAs(i, SegmentErrorState)
    /\ UNCHANGED <<texts, concurrency, pc, mode, batchStart, idx, results, out,
                   arrived, fetchCount, requests>>
    /\ UNCHANGED <<splitVars, hashVars, apiVars, srvVars, fpVars, pairVars>>

(* fetch() rejects: network error, or AbortSignal.timeout fired *)
FetchRejected(i) ==
    /\ task[i] = "fetching"
    /\ SettleAs(i, SegmentErrorState)
    /\ UNCHANGED <<texts, concurrency, pc, mode, batchStart, idx, results, out,
                   arrived, fetchCount, requests>>
    /\ UNCHANGED <<splitVars, hashVars, apiVars, srvVars, fpVars, pairVars>>

(* OK response whose body is null: warn and skip *)
FetchNoBody(i) ==
    /\ task[i] = "fetching"
    /\ SettleAs(i, "nobody")
    /\ UNCHANGED <<texts, concurrency, pc, mode, batchStart, idx, results, out,
                   arrived, fetchCount, requests>>
    /\ UNCHANGED <<splitVars, hashVars, apiVars, srvVars, fpVars, pairVars>>

(* OK response with a body: a reader is taken *)
FetchBody(i) ==
    /\ task[i] = "fetching"
    /\ task' = [task EXCEPT ![i] = "reading"]
    /\ UNCHANGED <<texts, concurrency, pc, mode, batchStart, idx, chunks,
                   results, out, arrived, fetchCount, requests, finished>>
    /\ UNCHANGED <<splitVars, hashVars, apiVars, srvVars, fpVars, pairVars>>

----------------------------------------------------------------------------
(* Batched mode: fetchOne's read loop *)

TaskReadPiece(i) ==
    /\ mode = "batched"
    /\ task[i] = "reading"
    /\ arrived[i] < MaxPieces
    /\ arrived' = [arrived EXCEPT ![i] = @ + 1]
    /\ chunks' = [chunks EXCEPT ![i] = Append(@, Piece(i, arrived[i] + 1))]
    /\ UNCHANGED <<texts, concurrency, pc, mode, batchStart, idx, task, results,
                   out, fetchCount, requests, finished>>
    /\ UNCHANGED <<splitVars, hashVars, apiVars, srvVars, fpVars, pairVars>>

TaskReadDone(i) ==
    /\ mode = "batched"
    /\ task[i] = "reading"
    /\ results' = [results EXCEPT
                     ![ResultSlot(i)] = <<[seg |-> i, data |-> Merge(chunks[i])]>>]
    /\ SettleAs(i, "ok")
    /\ arrived' = [arrived EXCEPT ![i] = 0]
    /\ UNCHANGED <<texts, concurrency, pc, mode, batchStart, idx, out,
                   fetchCount, requests>>
    /\ UNCHANGED <<splitVars, hashVars, apiVars, srvVars, fpVars, pairVars>>

(* reader.read() rejects: network error or timeout while the body streams *)
TaskReadError(i) ==
    /\ mode = "batched"
    /\ task[i] = "reading"
    /\ SettleAs(i, SegmentErrorState)
    /\ arrived' = [arrived EXCEPT ![i] = 0]
    /\ UNCHANGED <<texts, concurrency, pc, mode, batchStart, idx, results, out,
                   fetchCount, requests>>
    /\ UNCHANGED <<splitVars, hashVars, apiVars, srvVars, fpVars, pairVars>>

----------------------------------------------------------------------------
(* Batched mode: the generator's batch loop *)

LaunchBatch ==
    /\ pc = "batchLoop"
    /\ IF batchStart < N
          THEN /\ task' = [i \in Segments |->
                             IF i \in Batch(batchStart) THEN "headers" ELSE task[i]]
               /\ finished' = <<>>
               /\ pc' = "await"
          ELSE /\ pc' = "done"
               /\ UNCHANGED <<task, finished>>
    /\ UNCHANGED <<texts, concurrency, mode, batchStart, idx, chunks, results,
                   out, arrived, fetchCount, requests>>
    /\ UNCHANGED <<splitVars, hashVars, apiVars, srvVars, fpVars, pairVars>>

AwaitAll ==
    /\ pc = "await"
    /\ AnyRejected(batchStart) \/ AllSettled(batchStart)
    /\ pc' = IF AnyRejected(batchStart) THEN "threw" ELSE "emit"
    /\ idx' = batchStart
    /\ UNCHANGED <<texts, concurrency, mode, batchStart, task, chunks, results,
                   out, arrived, fetchCount, requests, finished>>
    /\ UNCHANGED <<splitVars, hashVars, apiVars, srvVars, fpVars, pairVars>>

EmitStep ==
    /\ pc = "emit"
    /\ IF idx < BatchEnd(batchStart)
          THEN IF Emittable(results[idx])
                  THEN /\ out' = Append(out, results[idx][1])
                       /\ pc' = AfterYield("yieldB", "resumeB")
                       /\ UNCHANGED <<idx, batchStart>>
                  ELSE /\ idx' = idx + 1
                       /\ UNCHANGED <<out, pc, batchStart>>
          ELSE /\ batchStart' = NextBatchStart(batchStart)
               /\ pc' = "batchLoop"
               /\ UNCHANGED <<out, idx>>
    /\ UNCHANGED <<texts, concurrency, mode, task, chunks, results, arrived,
                   fetchCount, requests, finished>>
    /\ UNCHANGED <<splitVars, hashVars, apiVars, srvVars, fpVars, pairVars>>

ResumeEmit ==
    /\ pc = "resumeB"
    /\ idx' = idx + 1
    /\ pc' = "emit"
    /\ UNCHANGED <<texts, concurrency, mode, batchStart, task, chunks, results,
                   out, arrived, fetchCount, requests, finished>>
    /\ UNCHANGED <<splitVars, hashVars, apiVars, srvVars, fpVars, pairVars>>

----------------------------------------------------------------------------
(* Serial mode: getAudioChunksSerial *)

SerialLoop ==
    /\ pc = "serialLoop"
    /\ IF idx < N
          THEN /\ task' = [task EXCEPT ![idx] = "headers"]
               /\ finished' = <<>>
               /\ pc' = "serialFetch"
          ELSE /\ pc' = "done"
               /\ UNCHANGED <<task, finished>>
    /\ UNCHANGED <<texts, concurrency, mode, batchStart, idx, chunks, results,
                   out, arrived, fetchCount, requests>>
    /\ UNCHANGED <<splitVars, hashVars, apiVars, srvVars, fpVars, pairVars>>

(* await this.getAudio(...) returns or throws *)
SerialAwaitFetch ==
    /\ pc = "serialFetch"
    /\ task[idx] \in {"reading", "nobody", "failed", "rejected"}
    /\ pc' = CASE task[idx] = "reading" -> "serialRead"
               [] task[idx] = "rejected" -> "threw"
               [] OTHER -> "serialLoop"
    /\ idx' = IF task[idx] \in {"nobody", "failed"} THEN idx + 1 ELSE idx
    /\ UNCHANGED <<texts, concurrency, mode, batchStart, task, chunks, results,
                   out, arrived, fetchCount, requests, finished>>
    /\ UNCHANGED <<splitVars, hashVars, apiVars, srvVars, fpVars, pairVars>>

SerialReadPiece ==
    /\ pc = "serialRead"
    /\ arrived[idx] < MaxPieces
    /\ arrived' = [arrived EXCEPT ![idx] = @ + 1]
    /\ out' = SerialEmit(out, [seg |-> idx, data |-> Piece(idx, arrived[idx] + 1)])
    /\ pc' = AfterYield("yieldS", "serialRead")
    /\ UNCHANGED <<texts, concurrency, mode, batchStart, idx, task, chunks,
                   results, fetchCount, requests, finished>>
    /\ UNCHANGED <<splitVars, hashVars, apiVars, srvVars, fpVars, pairVars>>

SerialReadDone ==
    /\ pc = "serialRead"
    /\ SettleAs(idx, "ok")
    /\ idx' = idx + 1
    /\ pc' = "serialLoop"
    /\ UNCHANGED <<texts, concurrency, mode, batchStart, results, out, arrived,
                   fetchCount, requests>>
    /\ UNCHANGED <<splitVars, hashVars, apiVars, srvVars, fpVars, pairVars>>

SerialReadError ==
    /\ pc = "serialRead"
    /\ SettleAs(idx, SegmentErrorState)
    /\ pc' = IF SegmentErrorState = "rejected" THEN "threw" ELSE "serialLoop"
    /\ idx' = IF SegmentErrorState = "rejected" THEN idx ELSE idx + 1
    /\ UNCHANGED <<texts, concurrency, mode, batchStart, results, out, arrived,
                   fetchCount, requests>>
    /\ UNCHANGED <<splitVars, hashVars, apiVars, srvVars, fpVars, pairVars>>

----------------------------------------------------------------------------

Upstream ==
    \/ \E i \in Segments : SendFetch(i)
    \/ \E i \in Segments : FetchHttpError(i)
    \/ \E i \in Segments : FetchRejected(i)
    \/ \E i \in Segments : FetchNoBody(i)
    \/ \E i \in Segments : FetchBody(i)
    \/ \E i \in Segments : TaskReadPiece(i)
    \/ \E i \in Segments : TaskReadDone(i)
    \/ \E i \in Segments : TaskReadError(i)

Generator ==
    \/ Enter
    \/ LaunchBatch
    \/ AwaitAll
    \/ EmitStep
    \/ ResumeEmit
    \/ SerialLoop
    \/ SerialAwaitFetch
    \/ SerialReadPiece
    \/ SerialReadDone
    \/ SerialReadError

Next == ConsumerNext \/ ConsumerStop \/ Generator \/ Upstream

Spec == Init /\ [][Next]_vars

(* The event loop runs every ready continuation, every upstream call ends *)
(* (answer, error or the 30 s AbortSignal.timeout), and a consumer at a   *)
(* yield either asks for the next value or returns.                       *)
Fairness ==
    /\ WF_vars(Generator)
    /\ WF_vars(Upstream)
    /\ WF_vars(ConsumerNext \/ ConsumerStop)

LiveInit == InitWith(LiveMaxSegs) /\ SplitIdle /\ HashIdle /\ ApiIdle /\ SrvIdle /\ FpIdle /\ PairIdle

FairSpec == LiveInit /\ [][Next]_vars /\ Fairness

----------------------------------------------------------------------------
(* Vocabulary of the properties *)

Terminal(i) == task[i] \in {"ok", "failed", "nobody"}
EmittedSegs == [p \in 1 .. Len(out) |-> out[p].seg]
TimesEmitted(i) == Cardinality({p \in 1 .. Len(out) : out[p].seg = i})
Ascending == \A p, q \in 1 .. Len(out) : p < q => out[p].seg < out[q].seg
BatchStartOf(j) == j - (j % concurrency)
Encodable(i) == ~EncodeURIComponentThrows(texts[i + 1])

(* what serial mode has to have emitted when the upstream delivered arrived[i] *)
(* pieces of each segment i: every piece, segment by segment                   *)
RECURSIVE SerialPieces(_, _)
SerialPieces(i, k) ==
    IF i >= N THEN <<>>
    ELSE IF k > arrived[i] THEN SerialPieces(i + 1, 1)
    ELSE <<[seg |-> i, data |-> Piece(i, k)]>> \o SerialPieces(i, k + 1)

----------------------------------------------------------------------------
(* C1: in batched mode the buffers are emitted in strictly ascending      *)
(* segment index order, whatever the order in which the fetch tasks of a  *)
(* batch settle.                                                          *)
C1_AscendingEmission == mode = "batched" => Ascending

(* a drained batched call whose last batch settled in inverted order (its *)
(* first segment last) and emitted every segment                          *)
C1_Witness ==
    /\ mode = "batched"
    /\ pc = "done"
    /\ Len(out) = N
    /\ Len(finished) >= 2
    /\ \A k \in 1 .. (Len(finished) - 1) : finished[k] > finished[k + 1]

(* C2 as stated: at the end of a batched call the output holds exactly    *)
(* one buffer per segment whose fetch did not fail, none for the failed   *)
(* ones, in ascending order.                                              *)
C2_OneBufferPerNonFailed ==
    (mode = "batched" /\ pc = "done") =>
        /\ Ascending
        /\ \A i \in Segments :
              TimesEmitted(i) = IF task[i] = "failed" THEN 0 ELSE 1

(* C2 amended: at the end of a batched call the output holds exactly one  *)
(* buffer, the assembled one, per segment whose fetch succeeded with a    *)
(* body, and none for a segment that failed or whose response had no body *)
C2_OneBufferPerSuccess ==
    (mode = "batched" /\ pc = "done") =>
        /\ Ascending
        /\ \A i \in Segments :
              TimesEmitted(i) = IF task[i] = "ok" THEN 1 ELSE 0
        /\ \A p \in 1 .. Len(out) : <<out[p]>> = results[out[p].seg]

(* four segments, segment 2 failed, segment 1 answered without a body *)
C2_Witness ==
    /\ mode = "batched"
    /\ pc = "done"
    /\ N = 4
    /\ task[2] = "failed" /\ fetchCount[2] = 1
    /\ task[1] = "nobody"
    /\ EmittedSegs = <<0, 3>>

(* C3: a segment's failure never raises out of the sequence, and at the   *)
(* normal end every segment has been attempted and every segment whose    *)
(* request could be built has been fetched.                               *)
C3_FailureIsContained ==
    /\ pc # "threw"
    /\ \A i \in Segments : task[i] # "rejected"
    /\ pc = "done" =>
          \A i \in Segments : Terminal(i) /\ (Encodable(i) => fetchCount[i] >= 1)

(* the call ended normally although a fetched segment failed, and a later *)
(* segment was delivered                                                  *)
C3_Witness ==
    /\ pc = "done"
    /\ \E i, j \in Segments :
          /\ i < j
          /\ task[i] = "failed" /\ fetchCount[i] = 1
          /\ task[j] = "ok" /\ TimesEmitted(j) >= 1

(* C4: per-batch barrier: a buffer is emitted only when every task of its *)
(* batch has settled, and a task of a later batch is launched only when   *)
(* every assembled buffer of the earlier batches has been emitted.        *)
C4_BatchBarrier ==
    mode = "batched" =>
        /\ \A p \in 1 .. Len(out) :
              \A j \in Batch(BatchStartOf(out[p].seg)) : Settled(j)
        /\ \A j \in Segments :
              task[j] # "idle" =>
                 \A i \in Segments :
                    (i < BatchStartOf(j) /\ results[i] # Null) => TimesEmitted(i) = 1

(* a fetch of the second batch is in flight after the first batch, one of *)
(* whose tasks failed, has been emitted                                   *)
C4_Witness ==
    /\ mode = "batched"
    /\ \E j \in Segments : j >= concurrency /\ task[j] = "fetching"
    /\ \E i \in Segments : i < concurrency /\ task[i] = "failed"
    /\ Len(out) >= 1

(* C5 as stated: the fetches in flight never exceed concurrency *)
C5_InFlightAtMostConcurrency == Cardinality(InFlight) <= concurrency

(* C5 amended: the fetches in flight never exceed concurrency, or 1 when  *)
(* concurrency is below 1 (serial mode keeps one fetch in flight)         *)
C5_InFlightAtMostMax == Cardinality(InFlight) <= Max(concurrency, 1)

(* a full batch in flight while segments are still waiting *)
C5_Witness ==
    /\ mode = "batched"
    /\ Cardinality(InFlight) = concurrency
    /\ \E i \in Segments : task[i] = "idle"

(* C6: serial mode is taken exactly when concurrency <= 1 or there are at *)
(* most 2 segments, and in serial mode a segment is being fetched only    *)
(* when every earlier segment is finished and no later one has started.   *)
C6_SerialOneAtATime ==
    /\ mode # "none" => (mode = "serial" <=> (concurrency <= 1 \/ N <= 2))
    /\ mode = "serial" =>
          \A j \in Segments :
             task[j] \in {"headers", "fetching", "reading"} =>
                /\ \A i \in Segments : i < j => Terminal(i)
                /\ \A i \in Segments : i > j => task[i] = "idle"

(* serial mode, third segment being fetched after one drained and one failed *)
C6_Witness ==
    /\ mode = "serial"
    /\ N = 4
    /\ task[0] = "ok" /\ arrived[0] = 2
    /\ task[1] = "failed"
    /\ task[2] = "fetching"

(* C7: in serial mode the output is at every moment exactly the pieces    *)
(* the upstream has delivered so far, in segment order, those of a        *)
(* segment that failed later included, and the call goes on to the end.   *)
C7_SerialStreaming ==
    mode = "serial" =>
        /\ out = SerialPieces(0, 1)
        /\ pc = "done" => \A i \in Segments : Terminal(i)

(* segment 0 failed after one piece, segment 1 was then streamed whole *)
C7_Witness ==
    /\ mode = "serial"
    /\ pc = "done"
    /\ N >= 2
    /\ task[0] = "failed" /\ arrived[0] = 1
    /\ task[1] = "ok" /\ arrived[1] = 2
    /\ EmittedSegs = <<0, 1, 1>>

(* C8 as stated: no segment is fetched twice, and a drained call has      *)
(* fetched every segment exactly once.                                    *)
C8_FetchedExactlyOnce ==
    /\ \A i \in Segments : fetchCount[i] <= 1
    /\ pc = "done" => \A i \in Segments : fetchCount[i] = 1

(* C8 amended: no segment is fetched twice, and a drained call has        *)
(* fetched exactly once every segment whose text can be URL-encoded; a    *)
(* segment whose text holds a lone surrogate is never fetched.            *)
C8_FetchedOnceIfEncodable ==
    /\ \A i \in Segments : fetchCount[i] <= 1
    /\ pc = "done" =>
          \A i \in Segments : fetchCount[i] = IF Encodable(i) THEN 1 ELSE 0

(* a drained batched call with a fetch that failed and was not repeated,  *)
(* and a segment that could not be encoded                                *)
C8_Witness ==
    /\ pc = "done"
    /\ mode = "batched"
    /\ \E i \in Segments : task[i] = "failed" /\ fetchCount[i] = 1
    /\ \E i \in Segments : ~Encodable(i) /\ fetchCount[i] = 0

(* C9: the call always finishes: it reaches its normal end, or the end by *)
(* return() of a consumer that stopped asking.                            *)
C9_Termination == <>(pc = "done" \/ pc = "returned")

(* a batched call that ran to its end although every fetch failed *)
C9_Witness ==
    /\ pc = "done"
    /\ mode = "batched"
    /\ \A i \in Segments : task[i] = "failed" /\ fetchCount[i] = 1

(* C10: once the consumer has stopped no later batch is launched, and a   *)
(* task of a batch is launched only after the consumer has asked for a    *)
(* value more often than buffers of earlier batches were handed to it.    *)
C10_LaunchOnDemand ==
    mode = "batched" =>
        /\ pc = "returned" =>
              \A j \in Segments :
                 j >= BatchEnd(batchStart) => (task[j] = "idle" /\ fetchCount[j] = 0)
        /\ \A j \in Segments :
              task[j] # "idle" =>
                 requests > Cardinality({p \in 1 .. Len(out) :
                                            out[p].seg < BatchStartOf(j)})

(* the consumer stopped after the last buffer of the first batch: the     *)
(* second batch was never launched                                        *)
C10_Witness ==
    /\ mode = "batched"
    /\ pc = "returned"
    /\ idx = BatchEnd(batchStart) - 1
    /\ batchStart = 0
    /\ \E j \in Segments : task[j] = "idle"

(***************************************************************************)
(* splitText(text, maxLen): nano_tts.ts 194-240.  Strings are sequences of *)
(* UTF-16 code units.                                                      *)
(***************************************************************************)
MaxTextLen == 5
MaxSplitLen == 3

(* code units the texts are drawn from: a  space  .  ,  \n *)
SplitChars == { 97, 32, 46, 44, 10 }
SplitTexts == UNION { [1..n -> SplitChars] : n \in 0..MaxTextLen }

(* the character class of /([。？！.?!\n])/ *)
SentenceDelims == { 12290, 65311, 65281, 46, 63, 33, 10 }
(* the character class of /([,，])/ *)
CommaDelims == { 44, 65292 }
(* what String.prototype.trim removes: WhiteSpace and LineTerminator *)
WhiteSpace ==
    { 9, 10, 11, 12, 13, 32, 160, 5760, 8232, 8233, 8239, 8287, 12288, 65279 }
        \cup (8192..8202)

IsShortStrict(text, maxLen) == Len(text) < maxLen
(* if (text.length <= maxLen) *)
IsShort(text, maxLen) == Len(text) <= maxLen

(* String.prototype.split with a one-character capturing class: the pieces *)
(* between the matches alternate with the matched characters               *)
RECURSIVE SplitKeepFrom(_, _, _)
SplitKeepFrom(s, delims, cur) ==
    IF s = <<>> THEN << cur >>
    ELSE IF Head(s) \in delims
         THEN << cur, << Head(s) >> >> \o SplitKeepFrom(Tail(s), delims, <<>>)
         ELSE SplitKeepFrom(Tail(s), delims, Append(cur, Head(s)))
SplitKeep(s, delims) == SplitKeepFrom(s, delims, <<>>)

(* parts[i] || "" *)
PartOr(parts, i) == IF i <= Len(parts) THEN parts[i] ELSE <<>>

SentenceNoDelimiter(content, delimiter) == content
(* sentences.push(content + delimiter) *)
Sentence(content, delimiter) == content \o delimiter

(* the loop over parts with i += 2 (i is 1-based here) *)
RECURSIVE SentencesFrom(_, _)
SentencesFrom(parts, i) ==
    IF i > Len(parts) THEN <<>>
    ELSE LET content == PartOr(parts, i)
             delimiter == PartOr(parts, i + 1)
         IN  (IF content # <<>> \/ delimiter # <<>>
              THEN << Sentence(content, delimiter) >> ELSE <<>>)
             \o SentencesFrom(parts, i + 2)
Sentences(text) == SentencesFrom(SplitKeep(text, SentenceDelims), 1)

FitsPartOnly(current, part, maxLen) == Len(part) <= maxLen
(* (current + part).length <= maxLen *)
Fits(current, part, maxLen) == Len(current) + Len(part) <= maxLen

(* the loop over the comma parts of one long sentence, with its last flush *)
RECURSIVE CommaRegroup(_, _, _, _)
CommaRegroup(parts, i, current, maxLen) ==
    IF i > Len(parts)
    THEN IF current # <<>> THEN << current >> ELSE <<>>
    ELSE IF Fits(current, parts[i], maxLen)
         THEN CommaRegroup(parts, i + 1, current \o parts[i], maxLen)
         ELSE (IF current # <<>> THEN << current >> ELSE <<>>)
              \o CommaRegroup(parts, i + 1, parts[i], maxLen)

SplitSentence(sentence, maxLen) ==
    IF Len(sentence) <= maxLen THEN << sentence >>
    ELSE CommaRegroup(SplitKeep(sentence, CommaDelims), 1, <<>>, maxLen)

RECURSIVE SplitSentences(_, _)
SplitSentences(sentences, maxLen) ==
    IF sentences = <<>> THEN <<>>
    ELSE SplitSentence(Head(sentences), maxLen)
         \o SplitSentences(Tail(sentences), maxLen)

KeepSegmentNonEmpty(s) == s # <<>>
(* s.trim().length > 0 *)
KeepSegment(s) == \E k \in 1..Len(s) : s[k] \notin WhiteSpace

splitText(text, maxLen) ==
    IF IsShort(text, maxLen) THEN << text >>
    ELSE SelectSeq(SplitSentences(Sentences(text), maxLen), KeepSegment)

SplitInit ==
    /\ sText \in SplitTexts
    /\ sMaxLen \in 0..MaxSplitLen
    /\ sOut = <<>>
    /\ sPc = "call"
    /\ PipeIdle /\ HashIdle /\ ApiIdle /\ SrvIdle /\ FpIdle /\ PairIdle

SplitCall ==
    /\ sPc = "call"
    /\ sOut' = splitText(sText, sMaxLen)
    /\ sPc' = "done"
    /\ UNCHANGED <<sText, sMaxLen>>
    /\ UNCHANGED <<pipeVars, hashVars, apiVars, srvVars, fpVars, pairVars>>

SplitNext == SplitCall
SplitSpec == SplitInit /\ [][SplitNext]_vars

(* ---- vocabulary of the splitText claims ---- *)
IsBlank(s) == \A k \in 1..Len(s) : s[k] \in WhiteSpace
SplitReturned == sPc = "done"
LongPath == Len(sText) > sMaxLen
Suffix(s, k) == SubSeq(s, k + 1, Len(s))
StartsWith(s, prefix) ==
    Len(prefix) <= Len(s) /\ SubSeq(s, 1, Len(prefix)) = prefix

(* text is segs[1], segs[2], ... in this order, with nothing between, before *)
(* or after them but runs of whitespace                                     *)
RECURSIVE Embeds(_, _)
Embeds(text, segs) ==
    IF segs = <<>> THEN IsBlank(text)
    ELSE \E k \in 0..Len(text) :
            /\ IsBlank(SubSeq(text, 1, k))
            /\ StartsWith(Suffix(text, k), Head(segs))
            /\ Embeds(Suffix(text, k + Len(Head(segs))), Tail(segs))

(* text[i..j] is a maximal run without a comma that a sentence terminator, *)
(* if any, ends                                                            *)
IsUnit(text, i, j) ==
    /\ i <= j
    /\ \A k \in i..j : text[k] \notin CommaDelims
    /\ \A k \in i..(j - 1) : text[k] \notin SentenceDelims
    /\ i = 1 \/ text[i - 1] \in CommaDelims \cup SentenceDelims
    /\ \/ text[j] \in SentenceDelims
       \/ j = Len(text)
       \/ text[j + 1] \in CommaDelims
IsWholeUnit(text, seg) ==
    \E i \in 1..Len(text) : \E j \in i..Len(text) :
        IsUnit(text, i, j) /\ SubSeq(text, i, j) = seg

(* C11: a text no longer than maxLen is returned as the one segment [text], *)
(* unchanged                                                                *)
C11_ShortUnchanged ==
    (SplitReturned /\ Len(sText) <= sMaxLen) => sOut = << sText >>
(* " . " with maxLen 3: the long path would have dropped the last space *)
C11_Witness ==
    /\ SplitReturned /\ sText = << 32, 46, 32 >> /\ sMaxLen = Len(sText)
    /\ sOut = << sText >>

(* C12 as stated: for every text and maxLen no returned segment is empty or *)
(* whitespace-only                                                          *)
C12_NoBlankSegment ==
    SplitReturned => \A k \in 1..Len(sOut) : ~IsBlank(sOut[k])
(* C12 amended: for a text longer than maxLen no returned segment is empty  *)
(* or whitespace-only                                                       *)
C12_NoBlankSegmentLong ==
    (SplitReturned /\ LongPath) => \A k \in 1..Len(sOut) : ~IsBlank(sOut[k])
(* "a. " with maxLen 2: the whitespace-only sentence " " is dropped *)
C12_Witness ==
    /\ SplitReturned /\ sText = << 97, 46, 32 >> /\ sMaxLen = 2
    /\ sOut = << << 97, 46 >> >>

(* C13: the segments, concatenated in order, are the text, but for the     *)
(* characters of the whitespace-only pieces that were dropped               *)
C13_PreservesText == SplitReturned => Embeds(sText, sOut)
(* "a,a. a": two segments kept, the blank between the sentences kept in the *)
(* second one, nothing dropped, and a text with a dropped piece is C12's    *)
C13_Witness ==
    /\ SplitReturned /\ LongPath /\ Len(sOut) >= 2
    /\ \E k \in 1..Len(sText) : sText[k] \in CommaDelims
    /\ \E k \in 1..Len(sText) : sText[k] \in SentenceDelims
    /\ \E k \in 1..Len(sText) : sText[k] = 32

(* C14: for a text longer than maxLen >= 1 a segment is longer than maxLen *)
(* only if it is one whole comma-free unit of the text                      *)
C14_LengthBound ==
    (SplitReturned /\ LongPath /\ sMaxLen >= 1) =>
        \A k \in 1..Len(sOut) :
            Len(sOut[k]) <= sMaxLen \/ IsWholeUnit(sText, sOut[k])
(* "aaaa,a" cut at 3: the unit "aaaa" is emitted whole, ",a" follows *)
C14_Witness ==
    /\ SplitReturned /\ LongPath /\ sMaxLen >= 1
    /\ \E k \in 1..Len(sOut) : Len(sOut[k]) > sMaxLen
    /\ \E k \in 1..Len(sOut) : Len(sOut[k]) <= sMaxLen
    /\ \E k \in 1..Len(sText) : sText[k] \in CommaDelims

(***************************************************************************)
(* _e(nt): nano_tts.ts 38-50.  A number is a pair <<h, l>> standing for    *)
(* h * 2^16 + l with 0 <= l < 2^16, so that sums wider than 32 bits and    *)
(* their truncation by | 0 can both be written down.                       *)
(***************************************************************************)
MaxHashLen == 3

HashMaskWide == 32767 * 65536 + 65535
HASH_MASK_1 == 268435455
HASH_MASK_2 == 266338304
INT32_MAX == 2147483647

(* charCodeAt returns a UTF-16 code unit, below Half *)
Half == 65536
HashChars == { 0, 97, 20013, Half - 1 }
HashTexts == UNION { [1..n -> HashChars] : n \in 0..MaxHashLen }

RECURSIVE Pow2(_)
Pow2(k) == IF k = 0 THEN 1 ELSE 2 * Pow2(k - 1)

RECURSIVE BitAnd(_, _)
BitAnd(a, b) ==
    IF a = 0 \/ b = 0 THEN 0
    ELSE (a % 2) * (b % 2) + 2 * BitAnd(a \div 2, b \div 2)
RECURSIVE BitXor(_, _)
BitXor(a, b) ==
    IF a = 0 THEN b
    ELSE IF b = 0 THEN a
    ELSE ((a + b) % 2) + 2 * BitXor(a \div 2, b \div 2)

Num(n) == << n \div Half, n % Half >>
Carry(h, l) == << h + (l \div Half), l % Half >>
Add(x, y) == Carry(x[1] + y[1], x[2] + y[2])
(* ToInt32: the low 32 bits, read as a signed number *)
ToInt30(x) == << ((x[1] + (Half \div 8)) % (Half \div 4)) - (Half \div 8), x[2] >>
ToInt32(x) == << ((x[1] + (Half \div 2)) % Half) - (Half \div 2), x[2] >>
ToUint32(x) == << x[1] % Half, x[2] >>
InInt32(x) ==
    /\ x[1] >= -(INT32_MAX \div Half) - 1
    /\ x[1] <= INT32_MAX \div Half
    /\ x[2] \in 0..(Half - 1)

(* x << k *)
Shl(x, k) == ToInt32(Carry(x[1] * Pow2(k), x[2] * Pow2(k)))
(* x >>> k, for k >= 16 *)
Ushr(x, k) == << 0, ToUint32(x)[1] \div Pow2(k - 16) >>
(* x & y and x ^ y *)
And32(x, y) ==
    ToInt32(<< BitAnd(ToUint32(x)[1], ToUint32(y)[1]), BitAnd(x[2], y[2]) >>)
Xor32(x, y) ==
    ToInt32(<< BitXor(ToUint32(x)[1], ToUint32(y)[1]), BitXor(x[2], y[2]) >>)

(* the folding of bits 21..27 into the low bits *)
Fold(at) ==
    LET it == And32(at, Num(HASH_MASK_2))
    IN  IF it # << 0, 0 >> THEN Xor32(at, Ushr(it, 21)) ELSE at

HashStepWide(at, st) ==
    LET a == Add(Add(Carry(at[1] * Pow2(6), at[2] * Pow2(6)), Num(st)),
                 Carry(0, st * Pow2(14)))
        it == (a[1] \div 32) % 128
    IN  IF it # 0 THEN << a[1], BitXor(a[2], it) >> ELSE a
(* ((at << 6) & HASH_MASK_1) + st + (st << 14), before | 0 *)
HashSum(at, st) ==
    Add(Add(And32(Shl(at, 6), Num(HASH_MASK_1)), Num(st)), Shl(Num(st), 14))
(* one iteration of the loop body *)
HashStep(at, st) == Fold(ToInt32(HashSum(at, st)))

(* the loop body on unbounded integers: no ToInt32 anywhere, the masks kept; *)
(* the numbers are never negative                                            *)
AndWide(x, y) == << BitAnd(x[1], y[1]), BitAnd(x[2], y[2]) >>
XorWide(x, y) == << BitXor(x[1], y[1]), BitXor(x[2], y[2]) >>
ShlWide(x, k) == Carry(x[1] * Pow2(k), x[2] * Pow2(k))
ShrWide(x, k) == << x[1] \div Pow2(k), (x[1] % Pow2(k)) * (Half \div Pow2(k)) + x[2] \div Pow2(k) >>
HashStepUnbounded(at, st) ==
    LET a == Add(Add(AndWide(ShlWide(at, 6), Num(HASH_MASK_1)), Num(st)),
                 ShlWide(Num(st), 14))
        it == AndWide(a, Num(HASH_MASK_2))
    IN  IF it # << 0, 0 >> THEN XorWide(a, ShrWide(ShrWide(it, 16), 5)) ELSE a

HashStartKept(left) == left
(* let at = 0: the accumulator is a local of the call, whatever an earlier  *)
(* call left behind                                                          *)
HashStart(left) == << 0, 0 >>

HashInit ==
    /\ hIn \in HashTexts
    /\ hAt = HashStart(<< 0, 0 >>)
    /\ hWide = << 0, 0 >>
    /\ hI = Len(hIn) - 1
    /\ hPc = "loop"
    /\ hPrev = Null
    /\ PipeIdle /\ SplitIdle /\ ApiIdle /\ SrvIdle /\ FpIdle /\ PairIdle

(* for (...; i >= 0; i--) { ... } *)
HashLoop ==
    /\ hPc = "loop" /\ hI >= 0
    /\ hAt' = HashStep(hAt, hIn[hI + 1])
    /\ hWide' = HashStepUnbounded(hWide, hIn[hI + 1])
    /\ hI' = hI - 1
    /\ UNCHANGED <<hIn, hPc, hPrev>>
    /\ UNCHANGED <<pipeVars, splitVars, apiVars, srvVars, fpVars, pairVars>>

(* return at *)
HashReturn ==
    /\ hPc = "loop" /\ hI < 0
    /\ hPc' = "done"
    /\ UNCHANGED <<hIn, hAt, hI, hPrev, hWide>>
    /\ UNCHANGED <<pipeVars, splitVars, apiVars, srvVars, fpVars, pairVars>>

(* a second invocation with the identical string *)
HashAgain ==
    /\ hPc = "done" /\ hPrev = Null
    /\ hPrev' = hAt
    /\ hAt' = HashStart(hAt)
    /\ hWide' = << 0, 0 >>
    /\ hI' = Len(hIn) - 1
    /\ hPc' = "loop"
    /\ UNCHANGED hIn
    /\ UNCHANGED <<pipeVars, splitVars, apiVars, srvVars, fpVars, pairVars>>

HashNext == HashLoop \/ HashReturn \/ HashAgain
HashSpec == HashInit /\ [][HashNext]_vars

HashReturned == hPc = "done"

----------------------------------------------------------------------------
(* _e as a function of its argument, on 32-bit and on unbounded integers *)
(* the loop over the units lo..hi of nt, from the last to the first; the     *)
(* upper half is computed before the lower half is entered                   *)
RECURSIVE HashRange(_, _, _, _)
HashRange(nt, lo, hi, at) ==
    IF hi < lo THEN at
    ELSE IF hi = lo THEN HashStep(at, nt[hi])
    ELSE LET mid == (lo + hi) \div 2
             upper == HashRange(nt, mid + 1, hi, at)
         IN  IF upper = upper THEN HashRange(nt, lo, mid, upper) ELSE upper
HashFrom(nt, i, at) == HashRange(nt, 1, i, at)
RECURSIVE HashUnboundedFrom(_, _, _)
HashUnboundedFrom(nt, i, at) ==
    IF i < 1 THEN at ELSE HashUnboundedFrom(nt, i - 1, HashStepUnbounded(at, nt[i]))

(* C23 as stated: among the strings the argument is drawn from there is    *)
(* one for which the recurrence evaluated on unbounded integers gives        *)
(* another result than the 32-bit evaluation                                 *)
C23_TruncationMatters ==
    hIn \in HashTexts =>
        \E nt \in HashTexts :
            HashFrom(nt, Len(nt), << 0, 0 >>)
                # HashUnboundedFrom(nt, Len(nt), << 0, 0 >>)
(* C23 amended: for every string the two evaluations agree after every     *)
(* iteration, so the truncation changes no result                            *)
C23_UnboundedAgrees == hAt = hWide
(* the whole of a longest string read, with a result of 2^30 or more *)
C23_Witness ==
    /\ HashReturned /\ Len(hIn) = MaxHashLen
    /\ hAt[1] >= Half \div 4
    /\ hWide = hAt

(***************************************************************************)
(* generateUniqueHash(): nano_tts.ts 52-76, up to the value of hash.       *)
(***************************************************************************)
MaxRandoms == 3

(* appName = "chrome" *)
FpAppName ==
    << 99, 104, 114, 111, 109, 101 >>
(* `${ver}` with ver = 1.0 *)
FpVer ==
    << 49 >>
(* lang = "zh-CN" *)
FpLang ==
    << 122, 104, 45, 67, 78 >>
(* platform = "Win32" *)
FpPlatform ==
    << 87, 105, 110, 51, 50 >>
(* this.ua *)
FpUa ==
    << 77, 111, 122, 105, 108, 108, 97, 47, 53, 46, 48, 32, 40, 87, 105,
      110, 100, 111, 119, 115, 32, 78, 84, 32, 49, 48, 46, 48, 59, 32, 87,
      105, 110, 54, 52, 59, 32, 120, 54, 52, 41, 32, 65, 112, 112, 108, 101,
      87, 101, 98, 75, 105, 116, 47, 53, 51, 55, 46, 51, 54, 32, 40, 75, 72,
      84, 77, 76, 44, 32, 108, 105, 107, 101, 32, 71, 101, 99, 107, 111, 41,
      32, 67, 104, 114, 111, 109, 101, 47, 49, 49, 55, 46, 48, 46, 48, 46,
      48, 32, 83, 97, 102, 97, 114, 105, 47, 53, 51, 55, 46, 51, 54 >>
(* `${width}x${height}` *)
FpScreen ==
    << 49, 57, 50, 48, 120, 49, 48, 56, 48 >>
(* colorDepth = 24 *)
FpColorDepth ==
    << 50, 52 >>
(* referrer *)
FpReferrer ==
    << 104, 116, 116, 112, 115, 58, 47, 47, 98, 111, 116, 46, 110, 46, 99,
      110, 47, 99, 104, 97, 116 >>

(* the descriptor nt before the suffix loop *)
Descriptor ==
    FpAppName \o FpVer \o FpLang \o FpPlatform \o FpUa \o FpScreen
        \o FpColorDepth \o FpReferrer

(* String(n) for an integer n >= 0: its decimal digits *)
RECURSIVE StringOf(_)
StringOf(n) ==
    IF n < 10 THEN << 48 + n >> ELSE Append(StringOf(n \div 10), 48 + (n % 10))

LoopContinuesNonNegative(it) == it >= 0
(* while (it) *)
LoopContinues(it) == it # 0

(* Math.round(Math.random() * INT32_MAX): some of the values 0..INT32_MAX *)
RandomVals == { (INT32_MAX \div MaxRandoms) * k : k \in 0..MaxRandoms }

FpInit ==
    /\ fNt = Descriptor
    /\ fAt = Len(Descriptor)
    /\ fIt = 1
    /\ fPc = "loop"
    /\ fI = 0
    /\ fE = << 0, 0 >>
    /\ fHash = << 0, 0 >>
    /\ PipeIdle /\ SplitIdle /\ HashIdle /\ ApiIdle /\ SrvIdle /\ PairIdle

(* one pass of the suffix loop *)
FpLoop ==
    /\ fPc = "loop" /\ LoopContinues(fIt)
    /\ fNt' = fNt \o StringOf(BitXor(fIt, fAt))
    /\ fIt' = fIt - 1
    /\ fAt' = fAt + 1
    /\ UNCHANGED <<fPc, fI, fE, fHash>>
    /\ UNCHANGED <<pipeVars, splitVars, hashVars, apiVars, srvVars, pairVars>>

FpLoopExit ==
    /\ fPc = "loop" /\ ~LoopContinues(fIt)
    /\ fPc' = "e"
    /\ fI' = Len(fNt)
    /\ fE' = << 0, 0 >>
    /\ UNCHANGED <<fNt, fAt, fIt, fHash>>
    /\ UNCHANGED <<pipeVars, splitVars, hashVars, apiVars, srvVars, pairVars>>

(* one pass of the loop of _e(nt), from the last unit to the first *)
FpE ==
    /\ fPc = "e" /\ fI >= 1
    /\ fE' = HashStep(fE, fNt[fI])
    /\ fI' = fI - 1
    /\ UNCHANGED <<fNt, fAt, fIt, fPc, fHash>>
    /\ UNCHANGED <<pipeVars, splitVars, hashVars, apiVars, srvVars, pairVars>>

(* hash = (randomVal ^ this._e(nt)) >>> 0 *)
FpHash ==
    /\ fPc = "e" /\ fI < 1
    /\ \E randomVal \in RandomVals :
        fHash' = ToUint32(Xor32(Num(randomVal), fE))
    /\ fPc' = "hashed"
    /\ UNCHANGED <<fNt, fAt, fIt, fI, fE>>
    /\ UNCHANGED <<pipeVars, splitVars, hashVars, apiVars, srvVars, pairVars>>

FpNext == FpLoop \/ FpLoopExit \/ FpE \/ FpHash
FpSpec == FpInit /\ [][FpNext]_vars

LoopLeft == fPc \in { "e", "hashed" }

(* C24: the suffix loop makes exactly one pass and then stops: when it is  *)
(* left, and already after its first pass, the counter is 0 and the         *)
(* descriptor has grown by the one suffix String(1 XOR descriptorLength)     *)
C24_OneSuffix ==
    (LoopLeft \/ (fPc = "loop" /\ fAt > Len(Descriptor))) =>
        /\ fIt = 0
        /\ fAt = Len(Descriptor) + 1
        /\ fNt = Descriptor \o StringOf(BitXor(1, Len(Descriptor)))
(* the hash was taken of the descriptor of 160 units followed by "161" *)
C24_Witness ==
    /\ fPc = "hashed"
    /\ Len(fNt) = Len(Descriptor) + 3
    /\ SubSeq(fNt, Len(Descriptor) + 1, Len(fNt)) = << 49, 54, 49 >>
    /\ fE = << 3754, 53846 >>
    /\ fHash = fE

----------------------------------------------------------------------------
(* 0 <= x < 2^31 *)
NonNegative31(x) ==
    /\ x[1] >= 0 /\ x[1] <= INT32_MAX \div Half
    /\ x[2] >= 0 /\ x[2] < Half

(* C25: the accumulator of _e is never negative and stays below 2^31, after *)
(* every iteration and at the return; the sum of an iteration, taken before *)
(* | 0, is in that range too, so that | 0 leaves it as it is                 *)
C25_HashNonNegative ==
    /\ NonNegative31(hAt)
    /\ (hPc = "loop" /\ hI >= 0) =>
          /\ NonNegative31(HashSum(hAt, hIn[hI + 1]))
          /\ HashStep(hAt, hIn[hI + 1])[1] >= 0
(* an iteration is about to run on an accumulator of 2^30 or more, of which *)
(* the shift by 6 loses bits to the mask, and its sum is 2^30 or more        *)
C25_Witness ==
    /\ hPc = "loop" /\ hI >= 0
    /\ hAt[1] >= Half \div 4
    /\ Carry(hAt[1] * Pow2(6), hAt[2] * Pow2(6))
          # And32(Shl(hAt, 6), Num(HASH_MASK_1))
    /\ HashSum(hAt, hIn[hI + 1])[1] >= Half \div 4


(***************************************************************************)
(* Numbers as JavaScript computes and prints them.  An integer that does   *)
(* not fit TLC's integers is kept as six limbs of four decimal digits, the  *)
(* most significant first; a string is the sequence of its code units.      *)
(***************************************************************************)
Limb == 100 * 100

(* six columns of any size to six limbs, the carries passed upwards *)
Normalize(cols) ==
    LET k[i \in 1..7] == IF i = 7 THEN 0 ELSE (cols[i] + k[i + 1]) \div Limb
    IN  [i \in 1..6 |-> (cols[i] + k[i + 1]) % Limb]

(* the value hi * 2^16 + lo of a pair that is not negative *)
PairLimbs(x) ==
    Normalize(<< 0, 0, 0, 0, x[1] * (Half \div Limb), x[1] * (Half % Limb) + x[2] >>)
IntLimbs(n) == Normalize(<< 0, 0, 0, 0, 0, n >>)

BigTerm(a, b, p, q) == IF q \in 4..6 THEN a[p] * b[q] ELSE 0
(* a * b for a, b below 10^12 *)
BigMul(a, b) ==
    Normalize([i \in 1..6 |->
                 BigTerm(a, b, 4, i + 2) + BigTerm(a, b, 5, i + 1) + BigTerm(a, b, 6, i)])

BigLess(a, b) == \E i \in 1..6 : a[i] < b[i] /\ \A j \in 1..(i - 1) : a[j] = b[j]

(* 2^k for k from 48 to 64 *)
BigPow2(k) == BigMul(PairLimbs(<< Half, 0 >>), PairLimbs(<< Pow2(k - 48), 0 >>))

(* a div q and a mod q for q up to 2^11 *)
BigRem(a, q) ==
    LET r[i \in 0..6] == IF i = 0 THEN 0 ELSE (r[i - 1] * Limb + a[i]) % q
    IN  r
BigQuot(a, q) == [i \in 1..6 |-> (BigRem(a, q)[i - 1] * Limb + a[i]) \div q]

(* A double holds 53 significant bits: for an integer below 2^64, the       *)
(* number of low bits that a double of its size cannot hold                  *)
DoubleShift(a) ==
    CHOOSE j \in 0..11 :
        /\ BigLess(a, BigPow2(53 + j))
        /\ j > 0 => ~BigLess(a, BigPow2(52 + j))

(* the double nearest to the integer a, ties to the even significand *)
ToDouble(a) ==
    LET q == Pow2(DoubleShift(a))
        m == BigQuot(a, q)
        r == BigRem(a, q)[6]
        up == 2 * r > q \/ (2 * r = q /\ m[6] % 2 = 1)
        n == IF up THEN Normalize([m EXCEPT ![6] = @ + 1]) ELSE m
    IN  Normalize([i \in 1..6 |-> n[i] * q])

RECURSIVE DecNorm(_)
DecNorm(d) == IF Len(d) > 1 /\ d[1] = 0 THEN DecNorm(Tail(d)) ELSE d

(* the decimal digits of a, most significant first *)
BigDigits(a) ==
    DecNorm([i \in 1..24 |->
               LET l == a[(i + 3) \div 4]
                   p == (i - 1) % 4
               IN  (IF p = 0 THEN l \div 1000
                    ELSE IF p = 1 THEN l \div 100
                    ELSE IF p = 2 THEN l \div 10 ELSE l) % 10])

RECURSIVE DecAddRaw(_, _, _)
DecAddRaw(a, b, c) ==
    IF a = <<>> /\ b = <<>> THEN (IF c = 0 THEN <<>> ELSE << c >>)
    ELSE LET x == IF a = <<>> THEN 0 ELSE a[Len(a)]
             y == IF b = <<>> THEN 0 ELSE b[Len(b)]
             t == x + y + c
         IN  Append(DecAddRaw(IF a = <<>> THEN a ELSE SubSeq(a, 1, Len(a) - 1),
                              IF b = <<>> THEN b ELSE SubSeq(b, 1, Len(b) - 1),
                              t \div 10),
                    t % 10)
DecAdd(a, b) == DecNorm(DecAddRaw(a, b, 0))

(* the value of the last four digits of d *)
LastFour(d) ==
    LET v[i \in 0..Len(d)] ==
            IF i = 0 \/ i <= Len(d) - 4 THEN 0 ELSE v[i - 1] * 10 + d[i]
    IN  v[Len(d)]
(* the value of a digit sequence, or 10000 when it is 10000 or more *)
SmallVal(d) ==
    IF \E i \in 1..(Len(d) - 4) : d[i] # 0 THEN Limb ELSE LastFour(d)
(* 10^Len(d) minus the value of d, or 10000 when that is 10000 or more *)
SmallGap(d) ==
    IF \E i \in 1..(Len(d) - 4) : d[i] # 9 THEN Limb
    ELSE IF Len(d) = 1 THEN 10 - LastFour(d)
    ELSE IF Len(d) = 2 THEN 100 - LastFour(d)
    ELSE IF Len(d) = 3 THEN 1000 - LastFour(d)
    ELSE Limb - LastFour(d)

(* Number::toString for a double that is an integer below 10^21: the digits *)
(* of the decimal with the most trailing zeros z that still reads back as    *)
(* the double, the nearest to it when there are two; a decimal reads back    *)
(* as the double when it lies within half the gap to the neighbouring        *)
(* doubles, the bound itself counting for an even significand (gaps given    *)
(* four times)                                                               *)
RECURSIVE ShortestFrom(_, _, _, _, _)
ShortestFrom(v, z, even, lowGap4, highGap4) ==
    IF z = 0 THEN v
    ELSE LET head == SubSeq(v, 1, Len(v) - z)
             tail == SubSeq(v, Len(v) - z + 1, Len(v))
             down == SmallVal(tail)
             up == SmallGap(tail)
             okDown == IF even THEN 4 * down <= lowGap4 ELSE 4 * down < lowGap4
             okUp == IF even THEN 4 * up <= highGap4 ELSE 4 * up < highGap4
             lower == head \o [i \in 1..z |-> 0]
             upper == DecAdd(head, << 1 >>) \o [i \in 1..z |-> 0]
         IN  IF okDown /\ okUp
             THEN IF down < up \/ (down = up /\ head[Len(head)] % 2 = 0)
                  THEN lower ELSE upper
             ELSE IF okDown THEN lower
             ELSE IF okUp THEN upper
             ELSE ShortestFrom(v, z - 1, even, lowGap4, highGap4)

Chars(d) == [i \in 1..Len(d) |-> 48 + d[i]]

(* String(a) for a double a that is an integer *)
NumberString(a) ==
    LET j == DoubleShift(a)
        u == Pow2(j)
        even == BigQuot(a, u)[6] % 2 = 0
        lowGap4 == IF j > 0 /\ a = BigPow2(52 + j) THEN u ELSE 2 * u
        d == BigDigits(a)
    IN  Chars(ShortestFrom(d, Len(d) - 1, even, lowGap4, 2 * u))

(* String(x) for the 32-bit integer x *)
Int32String(x) ==
    IF x[1] < 0
    THEN << 45 >> \o Chars(BigDigits(PairLimbs(Carry(-x[1] - 1, Half - x[2]))))
    ELSE Chars(BigDigits(PairLimbs(x)))

(* s.replace(".", "e"): the first "." only *)
RECURSIVE ReplaceDot(_)
ReplaceDot(s) ==
    IF s = <<>> THEN s
    ELSE IF Head(s) = 46 THEN << 101 >> \o Tail(s)
    ELSE << Head(s) >> \o ReplaceDot(Tail(s))

(* s.slice(0, n) *)
Slice(s, n) == SubSeq(s, 1, Min(n, Len(s)))

(***************************************************************************)
(* One NanoAITTS instance: getHeaders (95-114), loadVoices (119-163) and   *)
(* the upstream call of getAudio (168-187).                                *)
(***************************************************************************)
MaxCalls == 2
MaxItems == 2

(* readings of the clock, in milliseconds *)
Nows == { 0, 1 }
(* readings of Math.random, in halves: 0 and 0.5 *)
Rands == { 0, 1 }
(* what one run of getHeaders reads: new Date() in getIso8601Time, then in  *)
(* generateMid Math.random() of generateUniqueHash, Date.now() and two more   *)
(* Math.random()                                                             *)
Readings == [date : Nows, r1 : Rands, now : Nows, r2 : Rands, r3 : Rands]

ua ==
    "Mozilla/5.0 (Windows NT 10.0; Win64; x64) AppleWebKit/537.36 (KHTML, like Gecko) Chrome/117.0.0.0 Safari/537.36"

(* the digest is kept symbolic: equal inputs give equal outputs, different *)
(* inputs different ones                                                    *)
md5(msg) == << "md5", msg >>

(* Math.round(Math.random() * INT32_MAX) for Math.random() = r / 2 *)
RandomVal(r) == r * (INT32_MAX \div 2) + (r * (INT32_MAX % 2) + 1) \div 2

(* nt after the suffix loop *)
RECURSIVE SuffixLoop(_, _, _)
SuffixLoop(nt, at, it) ==
    IF LoopContinues(it)
    THEN SuffixLoop(nt \o StringOf(BitXor(it, at)), at + 1, it - 1)
    ELSE nt
FingerprintText == SuffixLoop(Descriptor, Len(Descriptor), 1)
FingerprintE == HashFrom(FingerprintText, Len(FingerprintText), << 0, 0 >>)

(* hash * INT32_MAX, a double, with hash = (randomVal ^ this._e(nt)) >>> 0 *)
generateUniqueHash(r) ==
    ToDouble(BigMul(PairLimbs(ToUint32(Xor32(Num(RandomVal(r)), FingerprintE))),
                    IntLimbs(INT32_MAX)))

(* domain = "https://bot.n.cn" *)
MidDomain ==
    << 104, 116, 116, 112, 115, 58, 47, 47, 98, 111, 116, 46, 110, 46, 99, 110 >>
DomainE == HashFrom(MidDomain, Len(MidDomain), << 0, 0 >>)

(* String(Date.now() + Math.random() + Math.random()) *)
ClockString(now, r2, r3) ==
    StringOf((2 * now + r2 + r3) \div 2)
        \o (IF (2 * now + r2 + r3) % 2 = 1 THEN << 46, 53 >> ELSE <<>>)

(* the first 32 units of the three numbers printed one after the other, the *)
(* first "." replaced                                                        *)
generateMid(now, r1, r2, r3) ==
    Slice(ReplaceDot(Int32String(DomainE) \o NumberString(generateUniqueHash(r1))
                         \o ClockString(now, r2, r3)),
          32)
(* the clock shifted by eight hours, printed with +08:00 for Z *)
getIso8601Time(now) == << now + 8 * 3600 * 1000, "+08:00" >>

HeaderNames ==
    { "device-platform", "timestamp", "access-token", "zm-token", "zm-ver",
      "zm-ua", "User-Agent" }

getHeaders(rd) ==
    LET device == "Web"
        ver == "1.2"
        timestamp == getIso8601Time(rd.date)
        accessToken == generateMid(rd.now, rd.r1, rd.r2, rd.r3)
        zmUa == md5(ua)
        zmToken == md5(<< device, timestamp, ver, accessToken, zmUa >>)
    IN  ("device-platform" :> device) @@ ("timestamp" :> timestamp)
        @@ ("access-token" :> accessToken) @@ ("zm-token" :> zmToken)
        @@ ("zm-ver" :> ver) @@ ("zm-ua" :> zmUa) @@ ("User-Agent" :> ua)
(* the header set of every reading, computed once and kept as a table *)
HeadersOf ==
    LET table == [rd \in Readings |-> getHeaders(rd)]
    IN  IF table = table THEN table ELSE table

(* headers["Content-Type"] = ... on the object getHeaders returned *)
AudioHeaders(h) == ("Content-Type" :> "application/x-www-form-urlencoded") @@ h

PlatformUrl == "https://bot.n.cn/api/robot/platform"
(* `https://bot.n.cn/api/tts/v1?roleid=${voice}` *)
RoleId(voice) == voice
AudioUrl(voice) == << "https://bot.n.cn/api/tts/v1?roleid=", RoleId(voice) >>

NextBuildCached(b) == IF b = 0 THEN 1 ELSE b
(* await this.getHeaders(): the routine runs once more *)
NextBuild(b) == b + 1

(* loadVoices and getAudio from their entry to the first await inside        *)
(* getHeaders: the clock and Math.random are read, the header values are     *)
(* fixed, the fetch is still to come                                         *)
BuiltCall(kind, url, text, rd, b) ==
    [kind |-> kind, url |-> url, text |-> text, built |-> HeadersOf[rd], build |-> b]
(* the call of fetch with the headers built for it *)
SentCall(p) ==
    [kind |-> p.kind, url |-> p.url, built |-> p.built,
     headers |-> IF p.kind = "audio" THEN AudioHeaders(p.built) ELSE p.built,
     build |-> p.build]
(* getAudio after getHeaders returned: encodeURIComponent(text) may throw,   *)
(* and then no fetch is sent                                                 *)
AfterFetch(s, p) ==
    IF p.kind = "audio" /\ EncodeURIComponentThrows(p.text) THEN s
    ELSE Append(s, SentCall(p))

(* items of data.data.list; valid stands for item && typeof item.tag === "string" *)
Items ==
    { [valid |-> TRUE, tag |-> "A", title |-> "Alpha", icon |-> "a.png"],
      [valid |-> TRUE, tag |-> "DeepSeek", title |-> "", icon |-> ""],
      [valid |-> TRUE, tag |-> "", title |-> "", icon |-> ""],
      [valid |-> FALSE, tag |-> "", title |-> "", icon |-> ""] }
ItemLists == UNION { [1..n -> Items] : n \in 0..MaxItems }
(* what the upstream may answer to GET /api/robot/platform *)
Responses ==
    { [kind |-> k, list |-> <<>>] :
        k \in { "rejected", "notOk", "badJson", "notObject", "noList" } }
    \cup { [kind |-> "list", list |-> l] : l \in ItemLists }

VoiceInfo(item) ==
    [name |-> IF item.title # "" THEN item.title ELSE item.tag,
     iconUrl |-> item.icon]

(* this.voices = {} and the loop over data.data.list, later items overwriting *)
RECURSIVE AddItems(_, _)
AddItems(v, list) ==
    IF list = <<>> THEN v
    ELSE AddItems(IF Head(list).valid
                  THEN (Head(list).tag :> VoiceInfo(Head(list))) @@ v
                  ELSE v,
                  Tail(list))

FallbackInfo == [name |-> "DeepSeek (默认)", iconUrl |-> ""]
(* the catch block: this.voices["DeepSeek"] = {...} *)
Fallback(v) == ("DeepSeek" :> FallbackInfo) @@ v

(* the answer as it is remembered: whether loadVoices threw on it, which it *)
(* does on every answer but a list with an item that has a tag               *)
AnswerKind(resp) ==
    [kind |-> IF resp.kind = "list" /\ DOMAIN AddItems(<<>>, resp.list) # {}
              THEN "list" ELSE "failed",
     list |-> <<>>]

(* the catalog after loadVoices, from the catalog before and the answer *)
LoadVoicesResult(v, resp) ==
    IF resp.kind # "list" THEN Fallback(v)
    ELSE LET loaded == AddItems(<<>>, resp.list)
         IN  IF DOMAIN loaded = {} THEN Fallback(loaded) ELSE loaded

ApiInit ==
    /\ voices = <<>>
    /\ apiPc = "idle"
    /\ apiResp = NoResponse
    /\ sent = <<>>
    /\ builds = 0
    /\ pending = {}
    /\ PipeIdle /\ SplitIdle /\ HashIdle /\ SrvIdle /\ FpIdle /\ PairIdle

(* loadVoices up to the first await of getHeaders, the clock and           *)
(* Math.random read as one of rds                                            *)
LoadVoicesBuildOf(rds) ==
    /\ apiPc = "idle" /\ builds < MaxCalls
    /\ builds' = NextBuild(builds)
    /\ \E rd \in rds :
        pending' = pending \cup { BuiltCall("platform", PlatformUrl, <<>>, rd, builds') }
    /\ apiPc' = "building"
    /\ apiResp' = NoResponse
    /\ UNCHANGED <<voices, sent>>
    /\ UNCHANGED <<pipeVars, splitVars, hashVars, srvVars, fpVars, pairVars>>

LoadVoicesBuild == LoadVoicesBuildOf(Readings)

(* getHeaders returned: loadVoices calls fetch *)
LoadVoicesFetch ==
    /\ apiPc = "building"
    /\ \E p \in pending :
        /\ p.kind = "platform"
        /\ sent' = AfterFetch(sent, p)
        /\ pending' = pending \ { p }
    /\ apiPc' = "loading"
    /\ UNCHANGED <<voices, apiResp, builds>>
    /\ UNCHANGED <<pipeVars, splitVars, hashVars, srvVars, fpVars, pairVars>>

(* loadVoices from the answer of the fetch to its return *)
LoadVoicesSettle ==
    /\ apiPc = "loading"
    /\ \E resp \in Responses :
        /\ apiResp' = AnswerKind(resp)
        /\ voices' = LoadVoicesResult(voices, resp)
    /\ apiPc' = "idle"
    /\ UNCHANGED <<sent, builds, pending>>
    /\ UNCHANGED <<pipeVars, splitVars, hashVars, srvVars, fpVars, pairVars>>

(* getAudio(text, voice) up to the first await of getHeaders *)
GetAudioBuild ==
    /\ apiPc # "off" /\ builds < MaxCalls
    /\ builds' = NextBuild(builds)
    /\ \E text \in SegmentTexts, rd \in Readings :
        pending' = pending \cup { BuiltCall("audio", AudioUrl("DeepSeek"), text, rd, builds') }
    /\ UNCHANGED <<voices, apiPc, apiResp, sent>>
    /\ UNCHANGED <<pipeVars, splitVars, hashVars, srvVars, fpVars, pairVars>>

(* getHeaders returned: getAudio encodes the text and calls fetch *)
GetAudioFetch ==
    /\ \E p \in pending :
        /\ p.kind = "audio"
        /\ sent' = AfterFetch(sent, p)
        /\ pending' = pending \ { p }
    /\ UNCHANGED <<voices, apiPc, apiResp, builds>>
    /\ UNCHANGED <<pipeVars, splitVars, hashVars, srvVars, fpVars, pairVars>>

ApiNext ==
    \/ LoadVoicesBuild \/ LoadVoicesFetch \/ LoadVoicesSettle
    \/ GetAudioBuild \/ GetAudioFetch
ApiSpec == ApiInit /\ [][ApiNext]_vars

(* ---- vocabulary of the header and catalog claims ---- *)
ConstantHeaders == { "device-platform", "zm-ver", "User-Agent" }
LoadFailed(resp) == resp.kind = "failed"
LoadVoicesReturned == apiPc = "idle" /\ apiResp.kind # "none"

(* C16: every upstream call sends the header set of its own run of         *)
(* getHeaders, no run serves two calls, every built set has the seven field *)
(* names, and device-platform, zm-ver and User-Agent agree in all of them   *)
C16_FreshHeadersPerCall ==
    \A k \in 1..Len(sent) :
        /\ sent[k].build \in 1..builds
        /\ \A j \in 1..Len(sent) : j # k => sent[j].build # sent[k].build
        /\ DOMAIN sent[k].built = HeaderNames
        /\ \A f \in HeaderNames : sent[k].headers[f] = sent[k].built[f]
        /\ \A j \in 1..Len(sent) : \A f \in ConstantHeaders :
               sent[j].built[f] = sent[k].built[f]
(* a catalog load and an audio fetch, whose token fields differ *)
C16_Witness ==
    /\ Len(sent) >= 2
    /\ \E j, k \in 1..Len(sent) :
        /\ sent[j].kind = "platform" /\ sent[k].kind = "audio"
        /\ sent[j].built["access-token"] # sent[k].built["access-token"]
        /\ sent[j].built["zm-token"] # sent[k].built["zm-token"]

(* C17 as stated: after a failed loadVoices, whatever the catalog was      *)
(* before, the catalog is exactly the one fallback entry "DeepSeek"         *)
C17_FailureLeavesOnlyFallback ==
    (LoadVoicesReturned /\ LoadFailed(apiResp)) =>
        voices = ("DeepSeek" :> FallbackInfo)

(***************************************************************************)
(* server.ts: the startup load of the catalog (20-28) and the request      *)
(* handler (42-173), run for the requests of concurrent connections.       *)
(***************************************************************************)
MAX_INPUT_LENGTH == 4000

(* connections whose requests are handled concurrently *)
Conns == { 1, 2 }

NoHeader == "(absent)"
(* `Bearer ${STATIC_API_KEY}` with the default key *)
BearerKey == "Bearer sk-123456"
AuthHeaders == { NoHeader, "", "Bearer sk-000000", "sk-123456", BearerKey }

Methods == { "GET", "POST", "OPTIONS" }
Paths == { "/ping", "/v1/models", "/v1/audio/speech", "/" }

(* the largest number of segments splitText makes of an input here *)
MaxChunks == 2

(* body.input: absent, the number 0, another number, or a string of a given *)
(* length that splitText(input, 200) cuts into a given number of segments   *)
NoInput == [type |-> "undefined", length |-> 0, segments |-> 0]
ZeroInput == [type |-> "zero", length |-> 0, segments |-> 0]
NumberInput == [type |-> "number", length |-> 0, segments |-> 0]
ShortInput == [type |-> "string", length |-> 1, segments |-> 1]
StringInputs ==
    { [type |-> "string", length |-> 0, segments |-> 0], ShortInput,
      [type |-> "string", length |-> MAX_INPUT_LENGTH + 1, segments |-> 1] }
    \cup { [type |-> "string", length |-> MAX_INPUT_LENGTH, segments |-> n] :
             n \in 0..MaxChunks }
NoVoice == "(absent)"
NoBody == [json |-> "none", input |-> NoInput, voice |-> NoVoice, stream |-> FALSE]
(* what req.json() finds: no JSON, the JSON null, or an object *)
Bodies ==
    { [json |-> j, input |-> NoInput, voice |-> NoVoice, stream |-> FALSE] :
        j \in { "invalid", "null" } }
    \cup { [json |-> "object", input |-> i, voice |-> NoVoice, stream |-> FALSE] :
             i \in { NoInput, ZeroInput, NumberInput } \cup StringInputs }
    \cup { [json |-> "object", input |-> i, voice |-> NoVoice, stream |-> TRUE] :
             i \in { j \in StringInputs : j.length = MAX_INPUT_LENGTH } }
    \cup { [json |-> "object", input |-> ShortInput, voice |-> v, stream |-> st] :
             v \in { "A", "Unknown", "" }, st \in BOOLEAN }

IsSpeech(method, path) == path = "/v1/audio/speech" /\ method = "POST"
(* the requests that carry a body come with the right header or with the   *)
(* key without "Bearer "                                                     *)
BodyAuths == { "sk-123456", BearerKey }
Requests ==
    { [method |-> m, path |-> p, auth |-> a, body |-> NoBody] :
        m \in Methods, p \in Paths, a \in AuthHeaders }
    \cup { [method |-> "POST", path |-> "/v1/audio/speech", auth |-> a, body |-> b] :
             a \in BodyAuths, b \in Bodies }

AuthorizedAnyHeader(auth) == auth # NoHeader /\ auth # ""
(* the negation of !auth || auth !== `Bearer ${STATIC_API_KEY}` *)
Authorized(auth) == auth # NoHeader /\ auth # "" /\ auth = BearerKey

(* !input *)
Falsy(input) ==
    \/ input.type = "undefined"
    \/ input.type = "zero"
    \/ input.type = "string" /\ input.length = 0
TooLongOffByOne(input) ==
    input.type = "string" /\ input.length > MAX_INPUT_LENGTH + 1
(* input.length > MAX_INPUT_LENGTH; the length of a number is undefined *)
TooLong(input) == input.type = "string" /\ input.length > MAX_INPUT_LENGTH

(* (voice && supportedVoices.includes(voice)) ? voice : "DeepSeek" *)
SelectedVoiceUnchecked(v, voice) ==
    IF voice # NoVoice /\ voice # "" THEN voice ELSE "DeepSeek"
SelectedVoice(v, voice) ==
    IF voice # NoVoice /\ voice # "" /\ voice \in DOMAIN v THEN voice
    ELSE "DeepSeek"

HandlerCatalogAdds(v, req) ==
    IF IsSpeech(req.method, req.path) /\ req.body.voice # NoVoice
    THEN (req.body.voice :> [name |-> req.body.voice, iconUrl |-> ""]) @@ v
    ELSE v
(* tts.voices as the handler leaves it: Object.entries and Object.keys only *)
(* read it                                                                   *)
HandlerCatalog(v, req) == v

NoRequest == [method |-> "", path |-> "", auth |-> NoHeader, body |-> NoBody]
(* a handler: its request and response, what it has done, and of its        *)
(* getAudioChunks call texts.length (segs), the segments whose getAudio was  *)
(* entered (next), the header runs whose fetch is still to be sent (waits)   *)
(* and the ones whose fetch is sent and not yet answered (flying)            *)
IdleHandler ==
    [stage |-> "idle", req |-> NoRequest, status |-> 0, body |-> "", routed |-> FALSE,
     split |-> FALSE, fetched |-> FALSE, voice |-> "", roleid |-> NoVoice,
     segs |-> 0, next |-> 0, waits |-> {}, flying |-> {}]

Respond(h, status, body) == [h EXCEPT !.stage = "responded", !.status = status, !.body = body]

(* the handler from its entry to its first await or to its response *)
StartOf(h) ==
    LET req == h.req
    IN  IF req.method = "OPTIONS" THEN Respond(h, 204, "")
        ELSE IF req.path = "/ping" THEN Respond(h, 200, "pong")
        ELSE IF ~Authorized(req.auth) THEN Respond(h, 401, "Unauthorized")
        ELSE IF req.path = "/v1/models" /\ req.method = "GET"
             THEN Respond([h EXCEPT !.routed = TRUE], 200, "models")
        ELSE IF IsSpeech(req.method, req.path)
             THEN [h EXCEPT !.routed = TRUE, !.stage = "json"]
        ELSE Respond([h EXCEPT !.routed = TRUE], 404, "Not Found")

(* the speech route from the answer of req.json() to the call of            *)
(* getAudioChunks, or to its error response; splitText throws on a number    *)
BodyOf(h, v) ==
    LET b == h.req.body
    IN  IF b.json # "object" THEN Respond(h, 500, "error")
        ELSE IF Falsy(b.input) THEN Respond(h, 400, "Missing input")
        ELSE IF TooLong(b.input) THEN Respond(h, 400, "Input exceeds maximum length")
        ELSE IF b.input.type # "string"
             THEN Respond([h EXCEPT !.split = TRUE,
                                    !.voice = SelectedVoice(v, b.voice)],
                          500, "error")
        ELSE [h EXCEPT !.split = TRUE, !.voice = SelectedVoice(v, b.voice),
                       !.segs = b.input.segments, !.stage = "tts"]

(* the clock and Math.random as the runs of the server read them: the clock *)
(* at 0 and then at 1, Math.random at 0                                      *)
ServerReadings ==
    { rd \in Readings :
        rd.date = 0 /\ rd.now = 1 /\ rd.r1 = 0 /\ rd.r2 = 0 /\ rd.r3 = 0 }
(* tts.splitText(input, 200) for the string inputs of the server.  The     *)
(* input of one unit is "a", returned whole.  The input of 4000 units cut    *)
(* in n segments is n - 1 times "a\n", then 4000 - 2n blanks, then "\n"    *)
(* and "a" (4000 blanks for n = 0): every "a" but the last one is a sentence  *)
(* that keeps its delimiter, and the sentence of blanks, longer than maxLen   *)
(* and without a comma, is dropped by the filter                              *)
ServerTexts(input) ==
    [k \in 1 .. input.segments |->
        IF k < input.segments THEN << 97, 10 >> ELSE << 97 >>]

(* the segments getAudioChunks enters getAudio for when it goes on: the     *)
(* next one in serial mode, the next batch in batched mode                   *)
LaunchCount(h) ==
    IF UseSerial(DefaultConcurrency, h.segs) THEN Min(1, h.segs - h.next)
    ELSE Min(DefaultConcurrency, h.segs - h.next)
(* the runs of getHeaders these calls of getAudio make, b runs made before *)
LaunchBuilds(h, b) == (b + 1) .. (b + LaunchCount(h))
Launched(h, b) ==
    [h EXCEPT !.next = @ + LaunchCount(h), !.waits = @ \cup LaunchBuilds(h, b)]
(* getAudioChunks has nothing left to fetch and returns *)
GeneratorDone(h) == h.next = h.segs /\ h.waits = {} /\ h.flying = {}
(* with stream the Response is returned as soon as the stream is made, its  *)
(* start() having run up to the first await                                  *)
StreamReturn(h) ==
    IF h.stage = "tts" /\ h.req.body.stream THEN Respond(h, 200, "audio") ELSE h

ServerInit ==
    /\ voices = <<>>
    /\ apiPc = "idle"
    /\ apiResp = NoResponse
    /\ sent = <<>>
    /\ builds = 0
    /\ pending = {}
    /\ handlers = <<>>
    /\ PipeIdle /\ SplitIdle /\ HashIdle /\ FpIdle /\ PairIdle

(* await tts.loadVoices() at startup: its three steps *)
StartupBuild == handlers = <<>> /\ builds = 0 /\ LoadVoicesBuildOf(ServerReadings)
StartupFetch == handlers = <<>> /\ LoadVoicesFetch
StartupSettle == handlers = <<>> /\ LoadVoicesSettle
(* Deno.serve(handler), after loadVoices returned *)
Startup ==
    /\ handlers = <<>> /\ apiPc = "idle" /\ builds > 0
    /\ handlers' = [c \in Conns |-> IdleHandler]
    /\ UNCHANGED apiVars
    /\ UNCHANGED <<pipeVars, splitVars, hashVars, fpVars, pairVars>>

Receive(c) ==
    /\ c \in DOMAIN handlers /\ handlers[c].stage = "idle"
    /\ \E req \in Requests :
        handlers' = [handlers EXCEPT ![c] = [@ EXCEPT !.stage = "received", !.req = req]]
    /\ UNCHANGED apiVars
    /\ UNCHANGED <<pipeVars, splitVars, hashVars, fpVars, pairVars>>

HandlerStart(c) ==
    /\ c \in DOMAIN handlers /\ handlers[c].stage = "received"
    /\ handlers' = [handlers EXCEPT ![c] = StartOf(@)]
    /\ voices' = HandlerCatalog(voices, handlers[c].req)
    /\ UNCHANGED <<apiPc, apiResp, sent, builds, pending>>
    /\ UNCHANGED <<pipeVars, splitVars, hashVars, fpVars, pairVars>>

(* the calls of getAudio that h enters in this step, for the segments after *)
(* the h.next ones entered before, each up to the first await of its         *)
(* getHeaders                                                                *)
EnterGetAudio(h) ==
    /\ builds' = builds + LaunchCount(h)
    /\ \E rd \in ServerReadings :
        pending' = pending \cup
            { BuiltCall("audio", AudioUrl(h.voice),
                        ServerTexts(h.req.body.input)[h.next + (b - builds)], rd, b) :
                b \in LaunchBuilds(h, builds) }

(* req.json() answered: the body is checked, the voice chosen, the text     *)
(* split, and getAudioChunks runs up to its first await, in getHeaders; with *)
(* stream the handler returns its response here                              *)
HandlerBody(c) ==
    /\ c \in DOMAIN handlers /\ handlers[c].stage = "json"
    /\ LET h == BodyOf(handlers[c], voices)
       IN  IF h.stage = "tts"
           THEN /\ handlers' = [handlers EXCEPT ![c] = StreamReturn(Launched(h, builds))]
                /\ EnterGetAudio(h)
           ELSE /\ handlers' = [handlers EXCEPT ![c] = h]
                /\ UNCHANGED <<builds, pending>>
    /\ voices' = HandlerCatalog(voices, handlers[c].req)
    /\ UNCHANGED <<apiPc, apiResp, sent>>
    /\ UNCHANGED <<pipeVars, splitVars, hashVars, fpVars, pairVars>>

(* getHeaders returned to a getAudio of the request: its fetch is sent *)
HandlerFetch(c) ==
    /\ c \in DOMAIN handlers
    /\ \E p \in pending :
        /\ p.build \in handlers[c].waits
        /\ sent' = AfterFetch(sent, p)
        /\ pending' = pending \ { p }
        /\ handlers' = [handlers EXCEPT ![c] =
                          [@ EXCEPT !.fetched = TRUE, !.roleid = p.url[2],
                                    !.waits = @ \ { p.build },
                                    !.flying = @ \cup { p.build }]]
    /\ voices' = HandlerCatalog(voices, handlers[c].req)
    /\ UNCHANGED <<apiPc, apiResp, builds>>
    /\ UNCHANGED <<pipeVars, splitVars, hashVars, fpVars, pairVars>>

(* a fetch of the request is answered and its body read, or it failed; in   *)
(* serial mode getAudioChunks goes on to the next segment, in batched mode   *)
(* it does when the whole batch is through                                   *)
HandlerAnswer(c) ==
    /\ c \in DOMAIN handlers
    /\ \E b \in handlers[c].flying :
        LET h == [handlers[c] EXCEPT !.flying = @ \ { b }]
        IN  IF h.waits = {} /\ h.flying = {}
            THEN /\ handlers' = [handlers EXCEPT ![c] = Launched(h, builds)]
                 /\ EnterGetAudio(h)
            ELSE /\ handlers' = [handlers EXCEPT ![c] = h]
                 /\ UNCHANGED <<builds, pending>>
    /\ voices' = HandlerCatalog(voices, handlers[c].req)
    /\ UNCHANGED <<apiPc, apiResp, sent>>
    /\ UNCHANGED <<pipeVars, splitVars, hashVars, fpVars, pairVars>>

(* without stream: the chunks are collected and the audio response returned *)
HandlerRespond(c) ==
    /\ c \in DOMAIN handlers /\ handlers[c].stage = "tts"
    /\ GeneratorDone(handlers[c])
    /\ handlers' = [handlers EXCEPT ![c] = Respond(@, 200, "audio")]
    /\ voices' = HandlerCatalog(voices, handlers[c].req)
    /\ UNCHANGED <<apiPc, apiResp, sent, builds, pending>>
    /\ UNCHANGED <<pipeVars, splitVars, hashVars, fpVars, pairVars>>

ServerNext ==
    \/ StartupBuild \/ StartupFetch \/ StartupSettle \/ Startup
    \/ \E c \in Conns : Receive(c)
    \/ \E c \in Conns : HandlerStart(c)
    \/ \E c \in Conns : HandlerBody(c)
    \/ \E c \in Conns : HandlerFetch(c)
    \/ \E c \in Conns : HandlerAnswer(c)
    \/ \E c \in Conns : HandlerRespond(c)
ServerSpec == ServerInit /\ [][ServerNext]_vars

(* ---- vocabulary of the server claims ---- *)
Responded(c) == handlers[c].stage = "responded"
HandlerStep == handlers # <<>> /\ handlers' # handlers
InputMissingOrEmpty(b) ==
    \/ b.json # "object"
    \/ b.input.type = "undefined"
    \/ b.input.type = "string" /\ b.input.length = 0
InputTooLong(b) == b.input.type = "string" /\ b.input.length > MAX_INPUT_LENGTH

(* C18: only the startup loadVoices writes the catalog, no step of a       *)
(* request handler changes it, whatever the other connection is doing       *)
C18_RequestsKeepCatalog == [][HandlerStep => voices' = voices]_vars
(* a loaded catalog, a speech request and a models request both answered *)
C18_Witness ==
    /\ "A" \in DOMAIN voices
    /\ \E c, e \in DOMAIN handlers :
        /\ c # e /\ Responded(c) /\ Responded(e)
        /\ handlers[c].body = "audio" /\ handlers[c].req.body.voice = "Unknown"
        /\ handlers[e].body = "models"

(* C19 as stated: a request to a path other than /ping without the right   *)
(* Authorization header is answered 401 and reaches no route, and /ping is  *)
(* answered pong                                                             *)
C19_AuthEveryRequest ==
    \A c \in DOMAIN handlers : Responded(c) =>
        /\ (handlers[c].req.path # "/ping" /\ handlers[c].req.auth # BearerKey) =>
               (handlers[c].status = 401 /\ ~handlers[c].routed)
        /\ handlers[c].req.path = "/ping" =>
               (handlers[c].status = 200 /\ handlers[c].body = "pong")
(* C19 amended: the same for every request whose method is not OPTIONS,    *)
(* and an OPTIONS request to any path is answered 204 and reaches no route   *)
C19_AuthExceptPreflight ==
    \A c \in DOMAIN handlers : Responded(c) =>
        IF handlers[c].req.method = "OPTIONS"
        THEN handlers[c].status = 204 /\ handlers[c].body = "" /\ ~handlers[c].routed
        ELSE /\ (handlers[c].req.path # "/ping" /\ handlers[c].req.auth # BearerKey) =>
                    (handlers[c].status = 401 /\ ~handlers[c].routed
                     /\ ~handlers[c].split /\ ~handlers[c].fetched)
             /\ handlers[c].req.path = "/ping" =>
                    (handlers[c].status = 200 /\ handlers[c].body = "pong")
(* a speech request with the key but without "Bearer " refused, next to a   *)
(* /ping without any header answered                                         *)
C19_Witness ==
    \E c, e \in DOMAIN handlers :
        /\ Responded(c) /\ IsSpeech(handlers[c].req.method, handlers[c].req.path)
        /\ handlers[c].req.auth = "sk-123456" /\ handlers[c].status = 401
        /\ Responded(e) /\ handlers[e].req.path = "/ping"
        /\ handlers[e].req.method = "GET" /\ handlers[e].req.auth = NoHeader
        /\ handlers[e].body = "pong"

(* C20 as stated: a POST /v1/audio/speech whose input is missing, empty or *)
(* longer than 4000 is answered 400, without splitting or upstream fetch    *)
C20_BadInputIs400 ==
    \A c \in DOMAIN handlers :
        (/\ Responded(c)
         /\ IsSpeech(handlers[c].req.method, handlers[c].req.path)
         /\ \/ InputMissingOrEmpty(handlers[c].req.body)
            \/ InputTooLong(handlers[c].req.body)) =>
            (handlers[c].status = 400 /\ ~handlers[c].split /\ ~handlers[c].fetched)
(* C20 amended: so it is when the request is authorized and its body is a  *)
(* JSON object; it is answered 401 when it is not authorized and 500 when    *)
(* its body is not a JSON object; in no case is the text split or an         *)
(* upstream fetch sent                                                       *)
C20_BadInputIs400IfAuthorizedJson ==
    \A c \in DOMAIN handlers :
        (/\ Responded(c)
         /\ IsSpeech(handlers[c].req.method, handlers[c].req.path)
         /\ \/ InputMissingOrEmpty(handlers[c].req.body)
            \/ InputTooLong(handlers[c].req.body)) =>
            /\ ~handlers[c].split /\ ~handlers[c].fetched
            /\ handlers[c].status =
                   IF handlers[c].req.auth # BearerKey THEN 401
                   ELSE IF handlers[c].req.body.json # "object" THEN 500
                   ELSE 400
(* an input of 4001 characters refused while an input of 4000 is fetched *)
C20_Witness ==
    \E c, e \in DOMAIN handlers :
        /\ Responded(c) /\ handlers[c].req.body.input.length > MAX_INPUT_LENGTH
        /\ handlers[c].status = 400 /\ ~handlers[c].split
        /\ handlers[e].req.body.input.length = MAX_INPUT_LENGTH /\ handlers[e].fetched

Fetched(c) == handlers[c].fetched

(* C21 as stated: the voice sent upstream is the requested voice when it is *)
(* a key of the catalog and "DeepSeek" otherwise, hence always a key of the  *)
(* catalog or "DeepSeek"                                                     *)
C21_VoiceIsKeyOrDefault ==
    \A c \in DOMAIN handlers : Fetched(c) =>
        /\ handlers[c].roleid =
               IF handlers[c].req.body.voice \in DOMAIN voices
               THEN handlers[c].req.body.voice ELSE "DeepSeek"
        /\ handlers[c].roleid \in DOMAIN voices \cup { "DeepSeek" }
(* C21 amended: the requested voice when it is a non-empty key of the       *)
(* catalog, "DeepSeek" when it is absent, empty or not a key                 *)
C21_VoiceIsNonEmptyKeyOrDefault ==
    \A c \in DOMAIN handlers : Fetched(c) =>
        /\ handlers[c].roleid =
               IF /\ handlers[c].req.body.voice \in DOMAIN voices
                  /\ handlers[c].req.body.voice # ""
               THEN handlers[c].req.body.voice ELSE "DeepSeek"
        /\ handlers[c].roleid \in DOMAIN voices \cup { "DeepSeek" }
(* with the catalog {A}: voice "A" is sent as it is, voice "Unknown" is     *)
(* replaced by "DeepSeek", which is not a key                                *)
C21_Witness ==
    /\ DOMAIN voices = { "A" }
    /\ \E c, e \in DOMAIN handlers :
        /\ Fetched(c) /\ handlers[c].req.body.voice = "A" /\ handlers[c].roleid = "A"
        /\ Fetched(e) /\ handlers[e].req.body.voice = "Unknown"
        /\ handlers[e].roleid = "DeepSeek"

----------------------------------------------------------------------------
(* the body pieces 1..n of segment i, one after the other *)
AllPieces(i, n) == [k \in 1..n |-> <<i, k>>]

(* C22: in batched mode a task that stops reading either stores one buffer, *)
(* all the pieces it has read in arrival order, or, when the read failed,   *)
(* stores nothing whatever it had read; and what is emitted is the stored   *)
(* buffer of a successful segment                                            *)
C22_AllOrNothing ==
    [][mode = "batched" =>
         /\ \A i \in Segments :
              (task[i] = "reading" /\ task'[i] # "reading") =>
                  IF task'[i] = "ok"
                  THEN results'[i] = << [seg |-> i, data |-> AllPieces(i, arrived[i])] >>
                  ELSE results'[i] = Null
         /\ \A k \in (Len(out) + 1)..Len(out') :
              /\ task[out'[k].seg] = "ok"
              /\ results[out'[k].seg] = << out'[k] >>]_vars
(* one task of the batch has stored a buffer of two pieces while another   *)
(* one, with a piece already read, is still reading and has stored nothing  *)
C22_Witness ==
    /\ mode = "batched"
    /\ \E i, j \in Batch(batchStart) :
          /\ task[i] = "ok" /\ results[i] # Null /\ Len(results[i][1].data) >= 2
          /\ task[j] = "reading" /\ arrived[j] >= 1 /\ results[j] = Null

(***************************************************************************)
(* Two getAudioChunks calls on one NanoAITTS instance, their steps          *)
(* interleaved (server.ts 116-143 starts one per request).  A call keeps     *)
(* texts.length, batchStart, the index i of the emitting loop, the state of *)
(* its fetchOne tasks and what it yielded; the results arrays are kept      *)
(* apart in arrays, indexed by the call that owns them.  A buffer is named  *)
(* by the call and the segment it was fetched for.                          *)
(***************************************************************************)
PairMaxSegs == 4

PairCalls == { 1, 2 }
PairLengths == 3 .. PairMaxSegs

ResultsOwnerShared(c) == 1
(* const results = new Array(texts.length).fill(null): one array per call *)
ResultsOwner(c) == c

PairBuffer(c, i) == [call |-> c, seg |-> i]
PairBatchEnd(c) == Min(calls[c].batchStart + concurrency, calls[c].n)
PairBatch(c) == calls[c].batchStart .. (PairBatchEnd(c) - 1)
PairResult(c, i) == arrays[ResultsOwner(c)][i + 1]

PairInit ==
    /\ calls \in [PairCalls ->
                    { [pc |-> "start", n |-> n, batchStart |-> 0, idx |-> 0,
                       task |-> [i \in 0 .. (n - 1) |-> "idle"], out |-> <<>>] :
                      n \in PairLengths }]
    /\ arrays = [c \in PairCalls |-> <<>>]
    /\ PipeIdle /\ SplitIdle /\ HashIdle /\ ApiIdle /\ SrvIdle /\ FpIdle

(* the call enters batched mode and allocates its results array *)
PairStart(c) ==
    /\ calls[c].pc = "start"
    /\ ~UseSerial(concurrency, calls[c].n)
    /\ arrays' = [arrays EXCEPT ![ResultsOwner(c)] = [k \in 1 .. calls[c].n |-> Null]]
    /\ calls' = [calls EXCEPT ![c].pc = "loop"]
    /\ UNCHANGED <<pipeVars, splitVars, hashVars, apiVars, srvVars, fpVars>>

(* batchStart < texts.length: fetchOne(i) is started for the whole batch *)
PairLaunch(c) ==
    /\ calls[c].pc = "loop"
    /\ calls[c].batchStart < calls[c].n
    /\ calls' = [calls EXCEPT
                   ![c].pc = "await",
                   ![c].task = [i \in DOMAIN calls[c].task |->
                                  IF i \in PairBatch(c) THEN "fetching"
                                  ELSE calls[c].task[i]]]
    /\ UNCHANGED arrays
    /\ UNCHANGED <<pipeVars, splitVars, hashVars, apiVars, srvVars, fpVars>>

(* fetchOne(i) read the whole response: results[index] = merged *)
PairFetched(c, i) ==
    /\ calls[c].pc = "await"
    /\ calls[c].task[i] = "fetching"
    /\ arrays' = [arrays EXCEPT ![ResultsOwner(c)][i + 1] = << PairBuffer(c, i) >>]
    /\ calls' = [calls EXCEPT ![c].task[i] = "ok"]
    /\ UNCHANGED <<pipeVars, splitVars, hashVars, apiVars, srvVars, fpVars>>

(* fetchOne(i) ended in its catch block or found no body *)
PairFailed(c, i) ==
    /\ calls[c].pc = "await"
    /\ calls[c].task[i] = "fetching"
    /\ calls' = [calls EXCEPT ![c].task[i] = "failed"]
    /\ UNCHANGED arrays
    /\ UNCHANGED <<pipeVars, splitVars, hashVars, apiVars, srvVars, fpVars>>

(* await Promise.all(batchPromises) *)
PairAwait(c) ==
    /\ calls[c].pc = "await"
    /\ \A i \in PairBatch(c) : calls[c].task[i] \in { "ok", "failed" }
    /\ calls' = [calls EXCEPT ![c].pc = "emit", ![c].idx = calls[c].batchStart]
    /\ UNCHANGED arrays
    /\ UNCHANGED <<pipeVars, splitVars, hashVars, apiVars, srvVars, fpVars>>

(* if (results[i]) yield results[i]: the generator hands the buffer out and *)
(* is suspended at the yield, i not yet incremented; an empty slot is       *)
(* passed by i++ at once                                                     *)
PairEmit(c) ==
    /\ calls[c].pc = "emit"
    /\ calls[c].idx < PairBatchEnd(c)
    /\ calls' = IF Emittable(PairResult(c, calls[c].idx))
                THEN [calls EXCEPT
                        ![c].out = Append(@, PairResult(c, calls[c].idx)[1]),
                        ![c].pc = AfterYield("yield", "emit")]
                ELSE [calls EXCEPT ![c].idx = @ + 1]
    /\ UNCHANGED arrays
    /\ UNCHANGED <<pipeVars, splitVars, hashVars, apiVars, srvVars, fpVars>>

(* the consumer calls next(): the generator resumes after the yield, i++ *)
PairResume(c) ==
    /\ calls[c].pc = "yield"
    /\ calls' = [calls EXCEPT ![c].pc = "emit", ![c].idx = @ + 1]
    /\ UNCHANGED arrays
    /\ UNCHANGED <<pipeVars, splitVars, hashVars, apiVars, srvVars, fpVars>>

(* the consumer calls return() on the suspended generator: the call ends at *)
(* the yield, later batches are never launched                               *)
PairStop(c) ==
    /\ calls[c].pc = "yield"
    /\ calls' = [calls EXCEPT ![c].pc = "stopped"]
    /\ UNCHANGED arrays
    /\ UNCHANGED <<pipeVars, splitVars, hashVars, apiVars, srvVars, fpVars>>

(* the emitting loop ends: batchStart += concurrency *)
PairBatchDone(c) ==
    /\ calls[c].pc = "emit"
    /\ calls[c].idx >= PairBatchEnd(c)
    /\ calls' = [calls EXCEPT ![c].pc = "loop",
                              ![c].batchStart = NextBatchStart(@)]
    /\ UNCHANGED arrays
    /\ UNCHANGED <<pipeVars, splitVars, hashVars, apiVars, srvVars, fpVars>>

(* batchStart >= texts.length: the generator returns *)
PairReturn(c) ==
    /\ calls[c].pc = "loop"
    /\ calls[c].batchStart >= calls[c].n
    /\ calls' = [calls EXCEPT ![c].pc = "done"]
    /\ UNCHANGED arrays
    /\ UNCHANGED <<pipeVars, splitVars, hashVars, apiVars, srvVars, fpVars>>

PairNext ==
    \E c \in PairCalls :
        \/ PairStart(c)
        \/ PairLaunch(c)
        \/ \E i \in 0 .. (calls[c].n - 1) : PairFetched(c, i)
        \/ \E i \in 0 .. (calls[c].n - 1) : PairFailed(c, i)
        \/ PairAwait(c)
        \/ PairEmit(c)
        \/ PairResume(c)
        \/ PairStop(c)
        \/ PairBatchDone(c)
        \/ PairReturn(c)
PairSpec == PairInit /\ [][PairNext]_vars

(* what call c, run alone with the upstream responses it got, has yielded   *)
(* when its emitting loop has passed the segments below k: the buffer of    *)
(* each of them whose fetch succeeded, in segment order                      *)
(* the segments the emitting loop of call c has dealt with: those below i,  *)
(* and segment i itself while the call is, or ended, at its yield            *)
PairPassed(c) ==
    IF calls[c].pc \in { "yield", "stopped" } THEN calls[c].idx + 1 ELSE calls[c].idx

RECURSIVE OwnBuffers(_, _)
OwnBuffers(c, k) ==
    IF k = 0 THEN <<>>
    ELSE IF calls[c].task[k - 1] = "ok"
         THEN Append(OwnBuffers(c, k - 1), PairBuffer(c, k - 1))
         ELSE OwnBuffers(c, k - 1)

(* C26: at every point of two interleaved calls, each call has yielded      *)
(* exactly what it yields when run alone with the same upstream responses:  *)
(* the buffers fetched for its own segments, in its own segment order        *)
C26_NoInterference ==
    \A c \in PairCalls : calls[c].out = OwnBuffers(c, PairPassed(c))
(* call 1 is suspended at a yield, having passed one of its segments that   *)
(* failed, while call 2, still awaiting its batch, already holds a buffer    *)
(* at the index where call 1 holds none                                      *)
C26_Witness ==
    /\ calls[1].pc = "yield" /\ calls[2].pc = "await"
    /\ calls[1].out # <<>>
    /\ \E i \in 0 .. (calls[1].idx - 1) :
          /\ calls[1].task[i] = "failed"
          /\ calls[2].task[i] = "ok"
          /\ arrays[1][i + 1] = Null
          /\ arrays[2][i + 1] = << PairBuffer(2, i) >>

====
